---- MODULE Spec2Model ----
(***************************************************************************)
(* A model of the multi-tree MINLP controller of Coramin                   *)
(* (coramin/algorithms/multitree/multitree.py, class MultiTree).           *)
(*                                                                         *)
(* The controller state is the fields of MultiTree; the MIP backend, the   *)
(* NLP backend, FBBT, OBBT and the relaxation terms are black boxes whose  *)
(* answers are drawn from small sets.  One action is one phase of          *)
(* MultiTree.solve between two termination evaluations.                    *)
(*                                                                         *)
(* Numbers.  Objective values and bounds are integers; an                  *)
(* extended real is a pair <<s, n>>: <<0, n>> is n, <<1, 0>> is +inf and   *)
(* <<-1, 0>> is -inf.  A relative gap is a triple <<s, num, den>>.         *)
(* Tolerances are kept as the denominators of the source's values          *)
(* (1e-6 = 1/EpsDen), so every comparison is exact integer arithmetic.     *)
(* Values of discrete variables are kept in tenths (14 is 1.4).            *)
(* Python's None is the empty tuple, a set value v is <<v>>.               *)
(***************************************************************************)
EXTENDS Integers, Sequences, FiniteSets, TLC

\* ---------------------------------------------------------------- bounds
\* config.max_iter of the run (a NonNegativeInt option, 100 by default).
MaxIter == 4

\* ------------------------------------------------------ program constants
\* 1e-6 of the soundness assertions in _should_terminate.
EpsDen == 1000000
\* config.abs_gap = 1e-4.
AbsGapDen == 10000
\* config.mip_gap = 0.001.
MipGapDen == 1000
\* config.feasibility_tolerance = 1e-6.
FeasTolDen == 1000000
\* math.isclose's default rel_tol = 1e-09 (the integrality test of
\* _update_dual_bound).
IsCloseRelDen == 1000000000
\* rel_tol = abs_tol = 1e-6 of the near-integer assertion of the NLP step.
NearIntDen == 1000000
\* The pass caps solve hands to _add_oa_cuts.
OACapRoot == 100
OACapConvex == 100
OACapNonconvex == 3
\* config.max_partitions_per_iter as MultiTreeConfig sets it.
DefaultMaxPartitions == 100000
\* One unit of a discrete variable's value, in the tenths the model keeps.
DiscUnit == 10

\* ------------------------------------------------------------ input sets
\* Feasible objective values a backend may report.
FeasVals == {0, 1000}
\* Objective bounds a MIP backend may report.
BoundVals == {-1000, 1000}
\* Deviations a relaxation term may report (get_deviation).
DevVals == {0, 2}
\* Termination statuses a MIP backend may report.
RelStatuses == {"optimal", "unknown"}
\* A faulty tolerated set that also lets the in-progress status pass.
ToleratedStatusesWithUnknown ==
    {"optimal", "maxTimeLimit", "maxIterations", "objectiveLimit",
     "interrupted", "unknown"}
\* The statuses _solve_relaxation tolerates.
ToleratedStatuses ==
    {"optimal", "maxTimeLimit", "maxIterations", "objectiveLimit", "interrupted"}
Senses == {"minimize", "maximize"}
\* The ten flags of the MIP backend's update_config that _add_oa_cuts
\* sets and restores.
UpdateFlags ==
    {"update_params", "update_vars", "update_objective", "update_constraints",
     "check_for_new_objective", "check_for_new_or_removed_constraints",
     "check_for_new_or_removed_vars", "check_for_new_or_removed_params",
     "treat_fixed_vars_as_params", "update_named_expressions"}
\* How many relaxation terms a model handed to solve may have.
TermCounts == {0, 1}
\* The models handed to solve: the sense of the objective, the number of
\* relaxation terms, whether a term has an rhs variable without a finite
\* bound, and whether a discrete variable that appears in no term has
\* none (drawn for the minimisation models whose terms are bounded).
ModelsGiven ==
    {m \in [sense : Senses, nterms : TermCounts, rel_unbounded : BOOLEAN,
            disc_unbounded : BOOLEAN] :
        /\ m.rel_unbounded => m.nterms > 0
        /\ m.disc_unbounded =>
              m.sense = "minimize" /\ m.nterms > 0 /\ ~m.rel_unbounded}

\* --------------------------------------------------------------- helpers
None == <<>>
Some(v) == <<v>>
IsNone(x) == x = <<>>
Val(x) == x[1]
OptFeas == {None} \cup {Some(v) : v \in FeasVals}
OptBound == {None} \cup {Some(v) : v \in BoundVals}

Abs(n) == IF n < 0 THEN -n ELSE n
Max(a, b) == IF a >= b THEN a ELSE b

PInf == <<1, 0>>
NInf == <<-1, 0>>
Fin(n) == <<0, n>>
IsFin(x) == x[1] = 0

\* Extended-real comparison and the arithmetic the gap needs.
ELeq(a, b) ==
    IF a[1] # b[1] THEN a[1] < b[1]
    ELSE IF a[1] = 0 THEN a[2] <= b[2] ELSE TRUE
\* a/b <= c/d for relative gaps <<s, num, den>> (den > 0).
RLeq(a, b) ==
    IF b[1] = 1 THEN TRUE
    ELSE IF a[1] = 1 THEN FALSE
    ELSE a[2] * b[3] <= b[2] * a[3]

\* Python's round(): to the nearest integer, a tie to the even one; v and
\* the result are in tenths.
Round(v) ==
    LET fl == (v \div DiscUnit) * DiscUnit
        r == v - fl
    IN  IF 2 * r < DiscUnit THEN fl
        ELSE IF 2 * r > DiscUnit THEN fl + DiscUnit
        ELSE IF (fl \div DiscUnit) % 2 = 0 THEN fl ELSE fl + DiscUnit

\* math.isclose(a, b, rel_tol=1/relDen, abs_tol=absTenths/absDen) on tenths:
\* |a-b| <= max(rel_tol*max(|a|,|b|), abs_tol).  |a-b| is an integer, so
\* |a-b|*den <= m is |a-b| <= m \div den.
IsClose(a, b, relDen, absNum, absDen) ==
    Abs(a - b) <= Max(Max(Abs(a), Abs(b)) \div relDen, absNum \div absDen)

\* ------------------------------------------------------------ the models
\* The variables of a model: two discrete ones and a continuous one.
DiscNames == <<"x1", "x2">>
\* Values (in tenths) a MIP backend may report for each discrete variable.
DiscVals == [n \in {"x1", "x2"} |-> IF n = "x1" THEN {10} ELSE {10, 14}]
ContName == "y"
VarNames == {DiscNames[i] : i \in 1..Len(DiscNames)} \cup {ContName}
OrigVar(n) == <<"orig", n>>
NlpVar(n) == <<"nlp", n>>
RelVar(n) == <<"rel", n>>
OrigVars == {OrigVar(n) : n \in VarNames}
NlpVars == {NlpVar(n) : n \in VarNames}
RelVars == {RelVar(n) : n \in VarNames}
\* _rel_to_nlp_map and _nlp_to_orig_map, built at construction.
rel_to_nlp_map == [v \in RelVars |-> NlpVar(v[2])]
nlp_to_orig_map == [v \in NlpVars |-> OrigVar(v[2])]
\* The domains the discrete variables of the relaxation model are built
\* with.
DiscDomain0 ==
    [v \in {RelVar(DiscNames[i]) : i \in 1..Len(DiscNames)} |->
        IF v = RelVar("x1") THEN "Binary" ELSE "Integers"]

\* push_integers: the binary and the integer variables become continuous;
\* it returns the variables it relaxed, by kind.
relaxed_by_push(dom) ==
    [binaries |-> {v \in DOMAIN dom : dom[v] = "Binary"},
     integers |-> {v \in DOMAIN dom : dom[v] = "Integers"}]

push_integers(dom) ==
    [v \in DOMAIN dom |->
        IF dom[v] \in {"Binary", "Integers"} THEN "Reals" ELSE dom[v]]

\* pop_integers(relaxed_binaries, relaxed_integers): each relaxed variable
\* gets the domain it had.
pop_integers(r, dom) ==
    [v \in DOMAIN dom |->
        IF v \in r.binaries THEN "Binary"
        ELSE IF v \in r.integers THEN "Integers"
        ELSE dom[v]]

\* The constraints of the NLP model.
Cons == {"c1"}
\* The bounds the NLP model's variables have after construction.
NlpLb0 == [v \in NlpVars |-> 0]
NlpUb0 == [v \in NlpVars |-> IF v[2] = ContName THEN 80 ELSE 20]
\* Intervals for y (in tenths): the bounds of an active partition, or what
\* FBBT tightens them to.
YIntervals == {<<0, 80>>, <<40, 40>>}
\* Values (in tenths) an NLP backend may report for y.
ContVals == {40}

VARIABLES
    pc,                      \* where solve is
    fault,                   \* the exception that left solve, if any
    time_up,                 \* _elapsed_time >= config.time_limit, as last read
    load_solution,           \* config.load_solution, as _get_results read it
    sense,                   \* _objective.sense
    nterms,                  \* len(_relaxation_objects)
    rel_unbounded,           \* some term has an rhs variable without lb or ub
    disc_unbounded,          \* some discrete variable that is in no term has
                             \* no finite lb or ub
    is_convex,               \* what _is_problem_definitely_convex returned
    term_dev,                \* get_deviation() of each term, None before a load
    rel_val,                 \* values of the relaxation model's variables
    nlp_val,                 \* values of the NLP model's variables
    nlp_fixed,               \* the NLP variables that are fixed
    nlp_lb, nlp_ub,          \* bounds of the NLP variables
    nlp_con,                 \* the active constraints of the NLP model
    best_feasible_objective,
    incumbent,
    best_objective_bound,
    stop,
    iter,
    nlp_termination,
    rel_termination,
    rel_res,                 \* the last result of _solve_relaxation
    nlp_res,                 \* the last result of _solve_nlp_with_fixed_vars
    nlp_step,                \* the locals of the latest _solve_nlp_with_fixed_vars
                             \* call: proven_infeasible, any_unfixed_vars,
                             \* active_constraints, and whether it called
                             \* nlp_solver.solve
    oa_phase, oa_k,          \* which _add_oa_cuts call, and its loop index
    oa_results,              \* last_res of _add_oa_cuts, then what it returned
    decision,                \* what the last _should_terminate gave
    chk_gap,                 \* abs_gap, rel_gap of the last _should_terminate
                             \* that computed them
    log_line,                \* the last line _log wrote to the logger
    result,                  \* the Results solve returned
    loaded,                  \* the values load_vars put on the original model
    terms,                   \* the relaxation terms as the latest
                             \* _partition_helper call read them
    max_partitions_per_iter, \* config.max_partitions_per_iter
    refined,                 \* the terms that call partitioned, in order
    new_con_list,            \* how many cuts the latest _oa_cut_helper call
                             \* of _add_oa_cuts added
    update_config,           \* the flags of mip_solver.update_config that
                             \* are on
    original_update_config,  \* the copy _add_oa_cuts took of them
    rel_domain,              \* the domain of each discrete variable of the
                             \* relaxation model
    relaxed,                 \* relaxed_binaries, relaxed_integers of solve
    xs,                      \* the variables _compute_alpha is called with
    hess,                    \* the interval bounds of the Hessian's entries
    alpha                    \* what _compute_alpha returned

vars == <<pc, fault, time_up, load_solution, sense, nterms, rel_unbounded,
          disc_unbounded,
          is_convex,
          term_dev, rel_val, nlp_val, nlp_fixed, nlp_lb, nlp_ub, nlp_con,
          best_feasible_objective, incumbent, best_objective_bound,
          stop, iter, nlp_termination, rel_termination, rel_res, nlp_res, nlp_step,
          oa_phase, oa_k, oa_results, decision, chk_gap, log_line, result,
          loaded, terms, max_partitions_per_iter, refined, new_con_list,
          update_config, original_update_config, rel_domain, relaxed,
          xs, hess, alpha>>

\* The groups of variables an action leaves alone.
modelVars == <<sense, nterms, rel_unbounded, disc_unbounded>>
relVars == <<term_dev, rel_val>>
nlpModelVars == <<nlp_fixed, nlp_lb, nlp_ub, nlp_con>>
boundVars == <<best_feasible_objective, incumbent, best_objective_bound>>
statusVars == <<nlp_termination, rel_termination>>
oaVars == <<oa_phase, oa_k, oa_results, is_convex>>
evalVars == <<decision, time_up, chk_gap>>
outVars == <<result, loaded, load_solution>>
partVars == <<terms, max_partitions_per_iter, refined, new_con_list>>
cfgVars == <<update_config, original_update_config>>
domVars == <<rel_domain, relaxed>>
alphaVars == <<xs, hess, alpha>>

\* ----------------------------------------------------- the bound tracker
\* _get_primal_bound and _get_dual_bound, on given tracked values.
PrimalBoundOf(bfo) ==
    IF IsNone(bfo)
    THEN (IF sense = "minimize" THEN PInf ELSE NInf)
    ELSE Fin(Val(bfo))

DualBoundOf(bob) ==
    IF IsNone(bob)
    THEN (IF sense = "minimize" THEN NInf ELSE PInf)
    ELSE Fin(Val(bob))

_get_primal_bound == PrimalBoundOf(best_feasible_objective)

_get_dual_bound == DualBoundOf(best_objective_bound)

\* A faulty gap: the division is guarded by max(1, |primal|) and the case of
\* a primal bound of 0 is lost.
GapOfGuardedDivision(primal_bound, dual_bound) ==
    LET abs_gap == IF IsFin(primal_bound) /\ IsFin(dual_bound)
                   THEN Fin(Abs(primal_bound[2] - dual_bound[2]))
                   ELSE PInf
        rel_gap == IF abs_gap = Fin(0) THEN <<0, 0, 1>>
                   ELSE IF ~IsFin(abs_gap) THEN <<1, 0, 1>>
                   ELSE <<0, abs_gap[2], Max(1, Abs(primal_bound[2]))>>
    IN  <<abs_gap, rel_gap>>

\* _get_abs_and_rel_gap on given bounds: <<abs_gap, rel_gap>>.
GapOf(primal_bound, dual_bound) ==
    LET abs_gap == IF IsFin(primal_bound) /\ IsFin(dual_bound)
                   THEN Fin(Abs(primal_bound[2] - dual_bound[2]))
                   ELSE PInf
        rel_gap == IF abs_gap = Fin(0) THEN <<0, 0, 1>>
                   ELSE IF primal_bound = Fin(0) THEN <<1, 0, 1>>
                   ELSE IF ~IsFin(abs_gap) THEN <<1, 0, 1>>
                   ELSE <<0, abs_gap[2], Abs(primal_bound[2])>>
    IN  <<abs_gap, rel_gap>>

_get_abs_and_rel_gap == GapOf(_get_primal_bound, _get_dual_bound)

\* A faulty assertion: the minimize form whatever the sense is.
SoundnessMinimizeOnly ==
    LET p == PrimalBoundOf(best_feasible_objective)
        d == DualBoundOf(best_objective_bound)
    IN  IF ~IsFin(p) \/ ~IsFin(d) THEN TRUE
        ELSE (p[2] - d[2]) * EpsDen + Max(Abs(p[2]), Abs(d[2])) + 1 >= 0

\* The assertion of _should_terminate: with p, d finite,
\* p >= d - 1e-6*max(|p|,|d|) - 1e-6 is (p-d)*1e6 + max(|p|,|d|) + 1 >= 0.
\* An unset bound is the infinity that satisfies it.
SoundnessHolds ==
    LET p == _get_primal_bound
        d == _get_dual_bound
    IN  IF ~IsFin(p) \/ ~IsFin(d) THEN TRUE
        ELSE IF sense = "minimize"
        THEN (p[2] - d[2]) * EpsDen + Max(Abs(p[2]), Abs(d[2])) + 1 >= 0
        ELSE (d[2] - p[2]) * EpsDen + Max(Abs(p[2]), Abs(d[2])) + 1 >= 0

\* abs_gap <= config.abs_gap and rel_gap <= config.mip_gap.
AbsGapClosed(g) == IsFin(g[1]) /\ g[1][2] * AbsGapDen <= 1
RelGapClosed(g) == g[2][1] = 0 /\ g[2][2] * MipGapDen <= g[2][3]

\* A faulty evaluator: the gap is tested before the stop flag.
should_terminate_gap_first(timed_out) ==
    IF timed_out THEN <<"stop", "maxTimeLimit">>
    ELSE IF iter >= MaxIter THEN <<"stop", "maxIterations">>
    ELSE IF IsNone(stop) /\ ~SoundnessHolds THEN <<"fault", "AssertionError">>
    ELSE IF AbsGapClosed(_get_abs_and_rel_gap) THEN <<"stop", "optimal">>
    ELSE IF RelGapClosed(_get_abs_and_rel_gap) THEN <<"stop", "optimal">>
    ELSE IF ~IsNone(stop) THEN <<"stop", Val(stop)>>
    ELSE <<"continue", "unknown">>

\* --------------------------------------------------- termination evaluator
\* _should_terminate when the clock comparison
\* self._elapsed_time >= self.config.time_limit gives timed_out:
\* <<"stop", reason>>, <<"continue", "unknown">>, or
\* <<"fault", "AssertionError">> when the assertion fails.
_should_terminate(timed_out) ==
    IF timed_out THEN <<"stop", "maxTimeLimit">>
    ELSE IF iter >= MaxIter THEN <<"stop", "maxIterations">>
    ELSE IF ~IsNone(stop) THEN <<"stop", Val(stop)>>
    ELSE IF ~SoundnessHolds THEN <<"fault", "AssertionError">>
    ELSE IF AbsGapClosed(_get_abs_and_rel_gap) THEN <<"stop", "optimal">>
    ELSE IF RelGapClosed(_get_abs_and_rel_gap) THEN <<"stop", "optimal">>
    ELSE <<"continue", "unknown">>

\* The clock only goes forward: once the limit is passed it stays passed.
ClockReads == IF time_up THEN {TRUE} ELSE BOOLEAN

\* Whether _should_terminate, with the clock comparison giving timed_out,
\* gets to its call of _get_abs_and_rel_gap.
ComputesGap(timed_out) ==
    /\ ~timed_out
    /\ iter < MaxIter
    /\ IsNone(stop)
    /\ SoundnessHolds

\* One evaluation of _should_terminate whose clock comparison gives t: the
\* decision is made, and the gap is computed when the evaluation gets that
\* far.  The locals of the partitioning step before it are gone.
Evaluation(t) ==
    /\ terms' = <<>>
    /\ refined' = None
    /\ new_con_list' = None
    /\ max_partitions_per_iter' = max_partitions_per_iter
    /\ time_up' = t
    /\ decision' = _should_terminate(t)
    /\ chk_gap' = IF ComputesGap(t) THEN Some(_get_abs_and_rel_gap)
                  ELSE chk_gap

\* A faulty result assembly: the tracked dual bound is not carried over.
get_results_without_bound(termination_condition) ==
    [termination_condition |-> termination_condition,
     best_feasible_objective |-> best_feasible_objective,
     best_objective_bound |-> None,
     solution_loader |-> IF ~IsNone(best_feasible_objective)
                         THEN incumbent ELSE None]

\* ------------------------------------------------------- result assembly
\* The Results _get_results builds; its solution_loader is the incumbent's
\* loader when a feasible objective is recorded, else the empty default.
_get_results(termination_condition) ==
    [termination_condition |-> termination_condition,
     best_feasible_objective |-> best_feasible_objective,
     best_objective_bound |-> best_objective_bound,
     solution_loader |-> IF ~IsNone(best_feasible_objective)
                         THEN incumbent ELSE None]

\* solve returning _get_results(reason): with load_solution the incumbent is
\* loaded, or RuntimeError is raised when there is none.
\* config.load_solution is read here and nowhere else, so the value the
\* caller configured is drawn where it is read.
ReturnResults(reason) ==
    \E ls \in BOOLEAN :
    LET res == _get_results(reason)
    IN  /\ load_solution' = Some(ls)
        /\ IF ls /\ IsNone(res.best_feasible_objective)
           THEN /\ pc' = "raised"
                /\ fault' = "RuntimeError"
                /\ UNCHANGED <<result, loaded>>
           ELSE /\ pc' = "done"
                /\ fault' = fault
                /\ result' = Some(res)
                /\ loaded' = IF ls THEN res.solution_loader ELSE loaded

\* An exception leaving solve.
Raise(f) ==
    /\ pc' = "raised"
    /\ fault' = f

\* ------------------------------------------------------------------ _log
\* _get_constr_violation: max over the terms' deviations, +inf at the first
\* term with an rhs variable without a value.  On an empty list Python's
\* max raises ValueError (ConstrViolationFaults).
ConstrViolationFaults(devs) == Len(devs) = 0

RECURSIVE MaxViolFrom(_, _)
MaxViolFrom(devs, i) ==
    IF i > Len(devs) THEN Fin(0)
    ELSE IF IsNone(devs[i]) THEN PInf
    ELSE LET rest == MaxViolFrom(devs, i + 1)
         IN  IF ELeq(Fin(Val(devs[i])), rest) THEN rest ELSE Fin(Val(devs[i]))

_get_constr_violation(devs) == MaxViolFrom(devs, 1)

\* _log(header=False) faults when it calls _get_constr_violation on no terms.
LogFaults(bob) == ~IsNone(bob) /\ ConstrViolationFaults(term_dev)

\* The line _log(header=False) writes for the given tracked bounds.
LogLine(bfo, bob, it) ==
    [iter |-> it,
     primal_bound |-> PrimalBoundOf(bfo),
     dual_bound |-> DualBoundOf(bob),
     gap |-> GapOf(PrimalBoundOf(bfo), DualBoundOf(bob))]

\* Faulty bound updates: any candidate bound is taken; any candidate
\* objective is taken; the incumbent is keyed by the NLP model's variables;
\* the validation skips the integrality test.
DualBoundAfterAny(res_bob) ==
    IF ~IsNone(res_bob) THEN res_bob ELSE best_objective_bound

should_update_any(res_bfo) == ~IsNone(res_bfo)

MakeIncumbentOverNlpVars(vals) == [nv \in NlpVars |-> vals[nv]]

all_cons_satisfied_without_integrality(devs, vals) ==
    LET max_viol == _get_constr_violation(devs)
    IN  IsFin(max_viol) /\ max_viol[2] * FeasTolDen <= 1

\* --------------------------------------------------------- bound updates
\* The first half of _update_dual_bound: the tracked bound after a
\* candidate res_bob.
DualBoundAfter(res_bob) ==
    IF ~IsNone(res_bob)
    THEN IF sense = "minimize"
         THEN IF IsNone(best_objective_bound)
                 \/ Val(res_bob) > Val(best_objective_bound)
              THEN res_bob ELSE best_objective_bound
         ELSE IF IsNone(best_objective_bound)
                 \/ Val(res_bob) < Val(best_objective_bound)
              THEN res_bob ELSE best_objective_bound
    ELSE best_objective_bound

\* should_update of _update_primal_bound.
should_update(res_bfo) ==
    IF ~IsNone(res_bfo)
    THEN IF sense = "minimize"
         THEN IsNone(best_feasible_objective)
              \/ Val(res_bfo) < Val(best_feasible_objective)
         ELSE IsNone(best_feasible_objective)
              \/ Val(res_bfo) > Val(best_feasible_objective)
    ELSE FALSE

\* The incumbent _update_primal_bound builds from the NLP variables' values.
MakeIncumbent(vals) ==
    [ov \in {nlp_to_orig_map[nv] : nv \in NlpVars} |->
        vals[CHOOSE nv \in NlpVars : nlp_to_orig_map[nv] = ov]]

\* The validation of _update_dual_bound: every deviation within
\* feasibility_tolerance, every discrete variable math.isclose to its round.
all_cons_satisfied(devs, vals) ==
    LET max_viol == _get_constr_violation(devs)
    IN  /\ IsFin(max_viol) /\ max_viol[2] * FeasTolDen <= 1
        /\ \A i \in 1..Len(DiscNames) :
              LET v == Val(vals[RelVar(DiscNames[i])])
              IN  IsClose(v, Round(v), IsCloseRelDen, 0, 1)

\* --------------------------------------------------------------- actions
Init ==
    /\ pc = "idle"
    /\ fault = "none"
    /\ time_up = FALSE
    /\ load_solution = None
    /\ sense = "minimize"
    /\ nterms = 0
    /\ rel_unbounded = FALSE
    /\ disc_unbounded = FALSE
    /\ is_convex = None
    /\ term_dev = <<>>
    /\ rel_val = [v \in RelVars |-> None]
    /\ nlp_val = [v \in NlpVars |-> None]
    /\ nlp_fixed = [v \in NlpVars |-> FALSE]
    /\ nlp_lb = NlpLb0
    /\ nlp_ub = NlpUb0
    /\ nlp_con = Cons
    /\ best_feasible_objective = None
    /\ incumbent = None
    /\ best_objective_bound = None
    /\ stop = None
    /\ iter = 0
    /\ nlp_termination = "unknown"
    /\ rel_termination = "unknown"
    /\ rel_res = None
    /\ nlp_res = None
    /\ nlp_step = None
    /\ oa_phase = 0
    /\ oa_k = 0
    /\ oa_results = None
    /\ decision = None
    /\ chk_gap = None
    /\ log_line = None
    /\ result = None
    /\ loaded = None
    /\ terms = <<>>
    /\ max_partitions_per_iter = DefaultMaxPartitions
    /\ refined = None
    /\ new_con_list = None
    /\ update_config = UpdateFlags
    /\ original_update_config = None
    /\ xs = <<>>
    /\ hess = <<>>
    /\ alpha = None
    /\ rel_domain = DiscDomain0
    /\ relaxed = None

\* A faulty _re_init: the stop flag of the previous run is kept.
re_init_keeps_stop ==
    /\ incumbent' = None
    /\ best_feasible_objective' = None
    /\ best_objective_bound' = None
    /\ stop' = stop
    /\ nlp_termination' = "unknown"
    /\ rel_termination' = "unknown"
    /\ iter' = 0

\* A faulty _re_init that leaves the incumbent of the previous run.
re_init_keeps_incumbent ==
    /\ incumbent' = incumbent
    /\ best_feasible_objective' = None
    /\ best_objective_bound' = None
    /\ stop' = None
    /\ nlp_termination' = "unknown"
    /\ rel_termination' = "unknown"
    /\ iter' = 0

\* _re_init: the run state a solve call starts from.
_re_init ==
    /\ incumbent' = None
    /\ best_feasible_objective' = None
    /\ best_objective_bound' = None
    /\ stop' = None
    /\ nlp_termination' = "unknown"
    /\ rel_termination' = "unknown"
    /\ iter' = 0

\* solve, up to its first termination evaluation: _re_init, the clock, and
\* the construction of the NLP and relaxation models from the model given
\* (a model without variable values, all its constraints active).
Solve ==
    /\ pc \in {"idle", "done", "raised"}
    /\ _re_init
    /\ time_up' = FALSE
    /\ \E m \in ModelsGiven :
          /\ sense' = m.sense
          /\ nterms' = m.nterms
          /\ rel_unbounded' = m.rel_unbounded
          /\ disc_unbounded' = m.disc_unbounded
          /\ term_dev' = [i \in 1..m.nterms |-> None]
    /\ is_convex' = None
    /\ load_solution' = None
    /\ rel_val' = [v \in RelVars |-> None]
    /\ nlp_val' = [v \in NlpVars |-> None]
    /\ nlp_fixed' = [v \in NlpVars |-> FALSE]
    /\ nlp_lb' = NlpLb0
    /\ nlp_ub' = NlpUb0
    /\ nlp_con' = Cons
    /\ rel_res' = None
    /\ nlp_res' = None
    /\ nlp_step' = None
    /\ oa_phase' = 0
    /\ oa_k' = 0
    /\ oa_results' = None
    /\ decision' = None
    /\ chk_gap' = None
    /\ log_line' = log_line
    /\ result' = None
    /\ loaded' = None
    /\ terms' = <<>>
    /\ refined' = None
    /\ new_con_list' = None
    /\ original_update_config' = None
    /\ update_config' = UpdateFlags
    /\ rel_domain' = DiscDomain0
    /\ relaxed' = None
    /\ UNCHANGED alphaVars
    /\ max_partitions_per_iter' = max_partitions_per_iter
    /\ fault' = "none"
    /\ pc' = "check0"

\* The variables no termination evaluation touches.
CheckFrame ==
    UNCHANGED <<modelVars, relVars, nlp_val, nlpModelVars, boundVars, stop,
                iter, statusVars, nlp_res, nlp_step>>

\* An evaluation of solve itself: a stop returns the results, a failed
\* assertion leaves solve, and on continue solve goes on as Continue says.
\* The locals of solve (oa_results, rel_res) are gone once it has returned
\* or raised.
SolveCheck(Continue) ==
    \E t \in ClockReads :
    LET d == _should_terminate(t)
    IN  /\ Evaluation(t)
        /\ CheckFrame
        /\ UNCHANGED <<cfgVars, domVars, alphaVars>>
        /\ IF d[1] = "stop"
           THEN /\ ReturnResults(d[2])
                /\ oa_phase' = 0
                /\ oa_k' = 0
                /\ oa_results' = None
                /\ is_convex' = None
                /\ rel_res' = None
                /\ UNCHANGED log_line
           ELSE IF d[1] = "fault"
           THEN /\ Raise(d[2])
                /\ oa_phase' = 0
                /\ oa_k' = 0
                /\ oa_results' = None
                /\ is_convex' = None
                /\ rel_res' = None
                /\ UNCHANGED <<log_line, outVars>>
           ELSE /\ Continue
                /\ UNCHANGED <<fault, outVars>>

\* Where solve goes on when _add_oa_cuts returns: pop_integers and the
\* evaluation after the first loop, the evaluation after the second.
OAReturn == IF oa_phase = 1 THEN "check1" ELSE "check2"

\* A faulty restoration that leaves update_named_expressions as the loop
\* set it.
RestoredConfigButOne(current, original) ==
    (current \ (UpdateFlags \ {"update_named_expressions"}))
        \cup (original \cap (UpdateFlags \ {"update_named_expressions"}))

\* update_config after each of the ten flags is assigned the value it has
\* in the copy taken on entry.
RestoredConfig(current, original) ==
    (current \ UpdateFlags) \cup (original \cap UpdateFlags)

\* A fresh Results(), which _add_oa_cuts returns when no pass reported a
\* feasible objective.
EmptyResults ==
    [termination_condition |-> "unknown",
     best_feasible_objective |-> None,
     best_objective_bound |-> None,
     solution_loader |-> None]

\* The end of _add_oa_cuts, after the loop: the flags are restored and
\* last_res, or a fresh Results() when there is none, is returned to solve.
OAExitCode ==
    /\ update_config' = RestoredConfig(update_config,
                                        Val(original_update_config))
    /\ original_update_config' = original_update_config
    /\ oa_results' = IF IsNone(oa_results) THEN Some(EmptyResults)
                      ELSE oa_results
    /\ rel_domain' = IF oa_phase = 1
                     THEN pop_integers(Val(relaxed), rel_domain)
                     ELSE rel_domain
    /\ relaxed' = relaxed
    /\ pc' = OAReturn
    /\ UNCHANGED alphaVars

\* The loop goes on: its flags and last_res stay.
OAGoesOn(next_pc) ==
    /\ pc' = next_pc
    /\ UNCHANGED <<cfgVars, domVars, alphaVars, oa_results>>

\* An evaluation inside _add_oa_cuts: a stop breaks out of the loop, which
\* returns.  A failed assertion leaves the flags as the loop set them.
LoopCheck(next_pc) ==
    \E t \in ClockReads :
    LET d == _should_terminate(t)
    IN  /\ Evaluation(t)
        /\ CheckFrame
        /\ UNCHANGED <<oa_phase, oa_k, is_convex, log_line, outVars>>
        /\ IF d[1] = "fault"
           THEN /\ Raise(d[2])
                /\ UNCHANGED <<cfgVars, domVars, alphaVars, oa_results>>
           ELSE /\ fault' = fault
                /\ IF d[1] = "stop" THEN OAExitCode ELSE OAGoesOn(next_pc)

\* solve's first evaluation, right after the models are built; on continue
\* it logs, binds the backends, relaxes the integers and enters the first
\* outer-approximation loop.
Check0 ==
    /\ pc = "check0"
    /\ SolveCheck(/\ log_line' = Some(LogLine(best_feasible_objective,
                                              best_objective_bound, iter))
                  /\ oa_phase' = 1
                  /\ oa_k' = 0
                  /\ pc' = "oa_enter"
                  /\ UNCHANGED <<oa_results, is_convex, rel_res>>)

\* ------------------------------------------------- relaxation solve step
\* Value (in tenths) a MIP backend reports for the continuous variable.
RelContVals == {40}

\* What load_vars of a relaxation result can put on the relaxation model:
\* the variables' values, and with them every term's deviation.
RelSolutions ==
    [vals : {[rv \in RelVars |->
                 IF rv[2] = ContName THEN Some(c) ELSE Some(dv[rv[2]])] :
                     dv \in {g \in [DOMAIN DiscVals -> UNION {DiscVals[n] :
                                                    n \in DOMAIN DiscVals}] :
                                \A n \in DOMAIN DiscVals : g[n] \in DiscVals[n]},
                     c \in RelContVals},
     devs : [1..nterms -> {Some(d) : d \in DevVals}]]

\* What the MIP backend can answer: with status optimal any feasible
\* objective and bound, with another status no feasible objective.
RelAnswers ==
    {r \in [termination_condition : RelStatuses,
            best_feasible_objective : OptFeas,
            best_objective_bound : OptBound] :
        r.termination_condition # "optimal"
            => IsNone(r.best_feasible_objective)}

\* The relaxation's discrete variables, relaxed by push_integers.
_discrete_vars == {RelVar(DiscNames[i]) : i \in 1..Len(DiscNames)}

\* A faulty get_primals that gives every variable of the solution.
get_primals_of_all(vals, vars_to_load) == vals

\* solution_loader.get_primals(vars_to_load): the solution's values of the
\* given variables.
get_primals(vals, vars_to_load) == [v \in vars_to_load |-> vals[v]]

\* A faulty step counter that a solve leaves where it was.
IterAfterSolveStuck == iter

\* A faulty counter that counts every step twice.
IterAfterSolveTwice == iter + 2

\* The iteration counter after a relaxation solve or an NLP fixing step.
IterAfterSolve == iter + 1

\* _solve_relaxation, then pc' = next_pc; in_oa: the caller is _add_oa_cuts,
\* which keeps the result as last_res when it has a feasible objective.
_solve_relaxation(next_pc, in_oa) ==
    \E res \in RelAnswers :
    \E sol \in IF IsNone(res.best_feasible_objective)
               THEN {[vals |-> rel_val, devs |-> term_dev]}
               ELSE RelSolutions :
        LET tc == res.termination_condition
            f == res.best_feasible_objective
            b == res.best_objective_bound
            bob1 == DualBoundAfter(b)
            fault_in_update == ~IsNone(f) /\ ConstrViolationFaults(sol.devs)
            valid == /\ ~IsNone(f)
                     /\ ~fault_in_update
                     /\ all_cons_satisfied(sol.devs, sol.vals)
            accept == valid /\ should_update(f)
            bfo1 == IF accept THEN f ELSE best_feasible_objective
            nlp_val1 == IF valid
                        THEN [nv \in NlpVars |->
                                sol.vals[CHOOSE rv \in RelVars :
                                            rel_to_nlp_map[rv] = nv]]
                        ELSE nlp_val
            fault_in_log == ~fault_in_update /\ ~IsNone(bob1)
                            /\ ConstrViolationFaults(sol.devs)
        IN  /\ iter' = IterAfterSolve
            /\ rel_val' = sol.vals
            /\ term_dev' = sol.devs
            /\ best_objective_bound' = bob1
            /\ nlp_val' = nlp_val1
            /\ best_feasible_objective' = bfo1
            /\ incumbent' = IF accept THEN Some(MakeIncumbent(nlp_val1))
                            ELSE incumbent
            /\ IF fault_in_update \/ fault_in_log
               THEN /\ Raise("ValueError")
                    /\ UNCHANGED <<log_line, stop, rel_termination, rel_res,
                                   oa_results>>
               ELSE /\ log_line' = Some(LogLine(bfo1, bob1, IterAfterSolve))
                    /\ stop' = IF tc \notin ToleratedStatuses THEN Some(tc)
                               ELSE stop
                    /\ rel_termination' = tc
                    /\ rel_res' = Some(res)
                    /\ oa_results' =
                          IF in_oa /\ ~IsNone(f)
                          THEN Some([termination_condition |-> tc,
                                     best_feasible_objective |-> f,
                                     best_objective_bound |-> b,
                                     solution_loader |->
                                        Some(get_primals(sol.vals,
                                                         _discrete_vars))])
                          ELSE oa_results
                    /\ pc' = next_pc
                    /\ fault' = fault
            /\ UNCHANGED <<modelVars, nlpModelVars, nlp_termination, nlp_res, nlp_step,
                           oa_phase, oa_k, is_convex, evalVars, partVars, cfgVars, domVars, alphaVars, outVars>>

\* ----------------------------------------------- outer-approximation loop
\* A faulty cap that allows one pass more.
OACapOffByOne ==
    (IF oa_phase = 1 THEN OACapRoot
     ELSE IF Val(is_convex) THEN OACapConvex ELSE OACapNonconvex) + 1

\* The pass cap of the running _add_oa_cuts call.
OACap ==
    IF oa_phase = 1 THEN OACapRoot
    ELSE IF Val(is_convex) THEN OACapConvex ELSE OACapNonconvex

\* The variables the loop's own bookkeeping leaves alone.
OAFrame ==
    UNCHANGED <<fault, modelVars, relVars, nlp_val, nlpModelVars, boundVars,
                stop, iter, statusVars, rel_res, nlp_res, nlp_step, evalVars, partVars,
                log_line, outVars>>

\* The flags that are on while the loop runs.
LoopFlags == {"check_for_new_or_removed_params", "treat_fixed_vars_as_params"}

\* The start of _add_oa_cuts, up to the loop: a copy of update_config is
\* taken, each of its ten flags is set, and there is no last_res.
OAEnter ==
    /\ pc = "oa_enter"
    /\ original_update_config' = Some(update_config)
    /\ update_config' = (update_config \ UpdateFlags) \cup LoopFlags
    /\ oa_results' = None
    /\ oa_k' = 0
    /\ pc' = "oa_for"
    /\ IF oa_phase = 1
       THEN /\ relaxed' = Some(relaxed_by_push(rel_domain))
            /\ rel_domain' = push_integers(rel_domain)
       ELSE UNCHANGED domVars
    /\ UNCHANGED alphaVars
    /\ UNCHANGED <<fault, modelVars, relVars, nlp_val, nlpModelVars, boundVars,
                   stop, iter, statusVars, rel_res, nlp_res, nlp_step, evalVars,
                   partVars, log_line, outVars, oa_phase, is_convex>>

\* for _iter in range(max_iter): the next pass, or the loop is exhausted.
OAFor ==
    /\ pc = "oa_for"
    /\ IF oa_k < OACap THEN OAGoesOn("oa_top") ELSE OAExitCode
    /\ OAFrame
    /\ UNCHANGED <<oa_phase, oa_k, is_convex>>

\* if self._should_terminate()[0]: break, before the solve.
OATop ==
    /\ pc = "oa_top"
    /\ LoopCheck("oa_solve")
    /\ UNCHANGED rel_res

OASolve ==
    /\ pc = "oa_solve"
    /\ _solve_relaxation("oa_after_solve", TRUE)

\* if self._should_terminate()[0]: break, after the solve.  rel_res is not
\* read again.
OAAfterSolve ==
    /\ pc = "oa_after_solve"
    /\ LoopCheck("oa_cuts")
    /\ rel_res' = None

\* _oa_cut_helper: each term adds a cut or none; no new cut ends the loop.
OACuts ==
    /\ pc = "oa_cuts"
    /\ \E ncuts \in 0..nterms :
          /\ new_con_list' = Some(ncuts)
          /\ IF ncuts = 0 THEN OAExitCode ELSE OAGoesOn("oa_for")
          /\ oa_k' = IF ncuts = 0 THEN oa_k ELSE oa_k + 1
    /\ UNCHANGED <<fault, modelVars, relVars, nlp_val, nlpModelVars, boundVars,
                   stop, iter, statusVars, rel_res, nlp_res, nlp_step, evalVars, terms,
                   max_partitions_per_iter, refined, log_line, outVars>>
    /\ UNCHANGED <<oa_phase, is_convex>>

\* The evaluation after the first loop (integers popped); on continue
\* _is_problem_definitely_convex picks the cap of the second loop (a model
\* without relaxation terms is convex), which starts with no last_res.
Check1 ==
    /\ pc = "check1"
    /\ SolveCheck(/\ \E cv \in BOOLEAN :
                        /\ nterms = 0 => cv
                        /\ is_convex' = Some(cv)
                  /\ oa_phase' = 2
                  /\ oa_k' = 0
                  /\ oa_results' = None
                  /\ pc' = "oa_enter"
                  /\ UNCHANGED <<log_line, rel_res>>)

\* The evaluation after the second loop; on continue the root NLP fixing
\* step runs when the loop returned a feasible objective.  The loop's
\* locals are not read again.
Check2 ==
    /\ pc = "check2"
    /\ SolveCheck(/\ pc' = IF ~IsNone(oa_results)
                              /\ ~IsNone(Val(oa_results).best_feasible_objective)
                           THEN "root_nlp" ELSE "root_obbt"
                  /\ oa_results' = None
                  /\ oa_phase' = 0
                  /\ oa_k' = 0
                  /\ is_convex' = None
                  /\ UNCHANGED <<log_line, rel_res>>)

\* ------------------------------------------------------- NLP fixing step
\* math.isclose(val, round(val), rel_tol=1e-6, abs_tol=1e-6), val in tenths.
NearInteger(v) == IsClose(v, Round(v), NearIntDen, DiscUnit, NearIntDen)

\* The index in _discrete_vars of the first value that is not near an
\* integer, 0 when there is none.
FirstNotNearInteger(ivals) ==
    IF \A i \in 1..Len(DiscNames) : NearInteger(ivals[i]) THEN 0
    ELSE CHOOSE i \in 1..Len(DiscNames) :
            /\ ~NearInteger(ivals[i])
            /\ \A j \in 1..(i - 1) : NearInteger(ivals[j])

\* _get_nlp_specs_from_rel: the relaxation's values of the discrete
\* variables, and the bounds of the active partition of a piecewise term on
\* bounded variables (None: no such term).
IntegerVarValues == [i \in 1..Len(DiscNames) |-> Val(rel_val[RelVar(DiscNames[i])])]

RhsVarBounds ==
    IF nterms > 0 /\ ~rel_unbounded
    THEN {None} \cup {Some(iv) : iv \in YIntervals}
    ELSE {None}

\* What perform_fbbt can do to the NLP whose y has bounds <<lb, ub>>: prove
\* it infeasible, or tighten y's bounds and deactivate satisfied constraints.
FbbtOutcomes(lb, ub) ==
    {[infeasible |-> TRUE, y |-> <<lb, ub>>, deactivated |-> {}]}
    \cup {[infeasible |-> FALSE, y |-> iv, deactivated |-> dc] :
             iv \in {i \in YIntervals : lb <= i[1] /\ i[2] <= ub},
             dc \in {{}, Cons}}

\* What the NLP backend can answer.
NlpAnswers ==
    {[termination_condition |-> "optimal", best_feasible_objective |-> Some(f),
      best_objective_bound |-> None, y |-> Some(c)] :
         f \in FeasVals, c \in ContVals}
    \cup {[termination_condition |-> "infeasible",
           best_feasible_objective |-> None,
           best_objective_bound |-> None, y |-> None]}

\* A faulty test that looks at the discrete variables only.
any_unfixed_among_discrete(fx) ==
    \E i \in 1..Len(DiscNames) : ~fx[NlpVar(DiscNames[i])]

\* any_unfixed_vars: some variable of the NLP model is not fixed, fx being
\* the model's fixed flags after the midpoint fixing.
any_unfixed_vars(fx) == \E v \in NlpVars : ~fx[v]

\* A faulty except clause that sets no termination condition.
ProvenInfeasibleStatusUnset ==
    [termination_condition |-> "unknown",
     best_feasible_objective |-> None,
     best_objective_bound |-> None]

\* nlp_res as the except clause leaves it when FBBT proves infeasibility.
ProvenInfeasibleResults ==
    [termination_condition |-> "infeasible",
     best_feasible_objective |-> None,
     best_objective_bound |-> None]

\* nlp_res of a fully determined problem whose objective evaluates to o.
DeterminedResults(o) ==
    [termination_condition |-> "optimal",
     best_feasible_objective |-> Some(o),
     best_objective_bound |-> Some(o)]

\* The locals of a call that has run FBBT: what perform_fbbt did (fb), the
\* constraints active before it, the variables the call fixed, the fixed
\* flags after the midpoint fixing, and whether nlp_solver.solve was called.
NlpLocals(fb, fixed_vars, fx, solved) ==
    Some([proven_infeasible |-> fb.infeasible,
          fbbt |-> fb,
          active_constraints |-> nlp_con,
          fixed_vars |-> fixed_vars,
          fixed |-> fx,
          solved |-> solved])

\* The variables the NLP step never touches.
NlpFrame ==
    UNCHANGED <<modelVars, relVars, best_objective_bound, stop,
                rel_termination, rel_res, oaVars, evalVars, partVars, cfgVars, domVars, alphaVars, outVars>>

\* The step's end: _nlp_termination, _update_primal_bound(nlp_res), _log,
\* and then, unless _log raised, the restoration of the NLP model.
\* ans: the NLP result; vals: the NLP variables' values; fx, lb, ub, cn: the
\* NLP model as the step has left it.
NlpFinish(next_pc, ans, vals, fx, lb, ub, cn) ==
    LET f == ans.best_feasible_objective
        accept == should_update(f)
        bfo1 == IF accept THEN f ELSE best_feasible_objective
    IN  /\ nlp_termination' = ans.termination_condition
        /\ nlp_val' = vals
        /\ best_feasible_objective' = bfo1
        /\ incumbent' = IF accept THEN Some(MakeIncumbent(vals)) ELSE incumbent
        /\ IF LogFaults(best_objective_bound)
           THEN /\ Raise("ValueError")
                /\ nlp_fixed' = fx
                /\ nlp_lb' = lb
                /\ nlp_ub' = ub
                /\ nlp_con' = cn
                /\ UNCHANGED <<log_line, nlp_res>>
           ELSE /\ log_line' = Some(LogLine(bfo1, best_objective_bound,
                                             IterAfterSolve))
                /\ nlp_fixed' = [v \in NlpVars |->
                                    IF fx[v] /\ ~nlp_fixed[v] THEN FALSE
                                    ELSE fx[v]]
                /\ nlp_lb' = nlp_lb
                /\ nlp_ub' = nlp_ub
                /\ nlp_con' = cn \cup nlp_con
                /\ nlp_res' = Some([termination_condition |->
                                        ans.termination_condition,
                                    best_feasible_objective |-> f,
                                    best_objective_bound |->
                                        ans.best_objective_bound])
                /\ pc' = next_pc
                /\ fault' = fault

\* _solve_nlp_with_fixed_vars on the specs _get_nlp_specs_from_rel reads off
\* the relaxation, then pc' = next_pc.
_solve_nlp_with_fixed_vars(next_pc) ==
    LET ivals == IntegerVarValues
        bad == FirstNotNearInteger(ivals)
        y == NlpVar(ContName)
        disc(k) == {NlpVar(DiscNames[i]) : i \in 1..k}
        idx(v) == CHOOSE i \in 1..Len(DiscNames) : NlpVar(DiscNames[i]) = v
        \* the NLP model after the first k discrete variables are fixed
        fixed_to(k) == [v \in NlpVars |-> nlp_fixed[v] \/ v \in disc(k)]
        vals_to(k) == [v \in NlpVars |->
                          IF v \in disc(k) THEN Some(Round(ivals[idx(v)]))
                          ELSE nlp_val[v]]
        n == Len(DiscNames)
    IN  /\ iter' = IterAfterSolve
        /\ NlpFrame
        /\ IF bad # 0
           THEN \* the near-integer assertion fails at variable bad
                /\ Raise("AssertionError")
                /\ nlp_fixed' = fixed_to(bad - 1)
                /\ nlp_val' = vals_to(bad - 1)
                /\ nlp_step' = None
                /\ UNCHANGED <<nlp_lb, nlp_ub, nlp_con, nlp_termination,
                               best_feasible_objective, incumbent, log_line,
                               nlp_res>>
           ELSE \E rb \in RhsVarBounds :
                LET lb1 == IF IsNone(rb) THEN nlp_lb[y] ELSE Val(rb)[1]
                    ub1 == IF IsNone(rb) THEN nlp_ub[y] ELSE Val(rb)[2]
                IN  \E fb \in FbbtOutcomes(lb1, ub1) :
                    LET lb2 == [nlp_lb EXCEPT ![y] = fb.y[1]]
                        ub2 == [nlp_ub EXCEPT ![y] = fb.y[2]]
                        cn2 == nlp_con \ fb.deactivated
                        mid == (fb.y[1] + fb.y[2]) \div 2
                        \* math.isclose(v.lb, v.ub) of an unfixed y
                        y_fixed == /\ ~fixed_to(n)[y]
                                   /\ IsClose(fb.y[1], fb.y[2], IsCloseRelDen,
                                              0, 1)
                        fx2 == [fixed_to(n) EXCEPT ![y] = @ \/ y_fixed]
                        vals2 == [vals_to(n) EXCEPT ![y] = Some(mid)]
                        fv1 == {v \in disc(n) : ~nlp_fixed[v]}
                        fv2 == fv1 \cup (IF y_fixed THEN {y} ELSE {})
                    IN  IF fb.infeasible
                        THEN /\ nlp_step' = NlpLocals(fb, fv1, fixed_to(n),
                                                      FALSE)
                             /\ NlpFinish(next_pc, ProvenInfeasibleResults,
                                     vals_to(n), fixed_to(n), lb2, ub2, cn2)
                        ELSE IF any_unfixed_vars(fx2)
                        THEN \* a variable is left: the NLP backend solves
                             /\ nlp_step' = NlpLocals(fb, fv2, fx2, TRUE)
                             /\ \E ans \in NlpAnswers :
                                NlpFinish(next_pc, ans,
                                    IF IsNone(ans.best_feasible_objective)
                                    THEN vals2
                                    ELSE [vals2 EXCEPT ![y] = ans.y],
                                    fx2, lb2, ub2, cn2)
                        ELSE IF cn2 # {}
                        THEN \* assert not c.active fails
                             /\ nlp_step' = NlpLocals(fb, fv2, fx2, FALSE)
                             /\ Raise("AssertionError")
                             /\ nlp_fixed' = fx2
                             /\ nlp_val' = vals2
                             /\ nlp_lb' = lb2
                             /\ nlp_ub' = ub2
                             /\ nlp_con' = cn2
                             /\ UNCHANGED <<nlp_termination,
                                            best_feasible_objective,
                                            incumbent, log_line, nlp_res>>
                        ELSE \* every variable is fixed: the objective's value
                             /\ nlp_step' = NlpLocals(fb, fv2, fx2, FALSE)
                             /\ \E o \in FeasVals :
                                NlpFinish(next_pc, DeterminedResults(o),
                                    vals2, fx2, lb2, ub2, cn2)

\* The root NLP step of solve.
RootNLP ==
    /\ pc = "root_nlp"
    /\ _solve_nlp_with_fixed_vars("root_obbt")

\* Root OBBT: push_integers, then the passes, in which the relaxation's
\* variable bounds may tighten (an unbounded rhs variable may get bounds)
\* and the terms are rebuilt.  nlp_res is not read.
RootOBBT ==
    /\ pc = "root_obbt"
    /\ \E ub \in {rel_unbounded, FALSE} : rel_unbounded' = ub
    /\ nlp_res' = None
    /\ nlp_step' = None
    /\ relaxed' = Some(relaxed_by_push(rel_domain))
    /\ rel_domain' = push_integers(rel_domain)
    /\ pc' = "root_pop"
    /\ UNCHANGED alphaVars
    /\ UNCHANGED <<fault, sense, nterms, disc_unbounded, relVars, nlp_val,
                   nlpModelVars, boundVars, stop, iter, statusVars, rel_res,
                   oaVars,
                   evalVars, partVars, cfgVars, log_line, outVars>>

\* A faulty end of the root phase that leaves the discrete variables
\* continuous.
RootWithoutPop ==
    /\ pc = "root_pop"
    /\ pc' = "main_top"
    /\ UNCHANGED <<fault, modelVars, relVars, nlp_val, nlpModelVars,
                   boundVars, stop, iter, statusVars, rel_res, nlp_res,
                   nlp_step, oaVars, evalVars, partVars, cfgVars, domVars, alphaVars,
                   log_line, outVars>>

\* pop_integers after the OBBT passes.
RootPop ==
    /\ pc = "root_pop"
    /\ rel_domain' = pop_integers(Val(relaxed), rel_domain)
    /\ relaxed' = relaxed
    /\ pc' = "main_top"
    /\ UNCHANGED alphaVars
    /\ UNCHANGED <<fault, modelVars, relVars, nlp_val, nlpModelVars,
                   boundVars, stop, iter, statusVars, rel_res, nlp_res,
                   nlp_step, oaVars, evalVars, partVars, cfgVars, log_line,
                   outVars>>

\* ------------------------------------------------------------- main loop
\* The evaluation at the top of a pass.
MainTop ==
    /\ pc = "main_top"
    /\ SolveCheck(/\ pc' = "main_solve"
                  /\ UNCHANGED <<oaVars, log_line, rel_res>>)

MainSolve ==
    /\ pc = "main_solve"
    /\ _solve_relaxation("main_after_solve", FALSE)

\* The evaluation after the relaxation solve; on continue the pass goes on
\* with the NLP step when the relaxation found a feasible objective.
MainAfterSolve ==
    /\ pc = "main_after_solve"
    /\ SolveCheck(/\ pc' = IF ~IsNone(Val(rel_res).best_feasible_objective)
                           THEN "main_nlp" ELSE "main_top"
                  /\ rel_res' = None
                  /\ UNCHANGED <<oaVars, log_line>>)

MainNLP ==
    /\ pc = "main_nlp"
    /\ _solve_nlp_with_fixed_vars("main_cuts")

\* _oa_cut_helper in the main loop: cuts go to the relaxation.
MainCuts ==
    /\ pc = "main_cuts"
    /\ pc' = "main_partition"
    /\ nlp_res' = None
    /\ nlp_step' = None
    /\ UNCHANGED <<fault, modelVars, relVars, nlp_val, nlpModelVars,
                   boundVars, stop, iter, statusVars, rel_res, oaVars,
                   evalVars, partVars, cfgVars, domVars, alphaVars, log_line, outVars>>

\* ------------------------------------------------------- _partition_helper
\* A relaxation term as _partition_helper reads it: the values of its
\* auxiliary variable and of its rhs expression, in units of
\* 1 / FeasTolDen, its relaxation side, what is known of the curvature of
\* its rhs, and whether every rhs variable has both bounds.
RelaxationSides == {"UNDER", "OVER", "BOTH"}

\* config.feasibility_tolerance in the unit of aux and rhs.
TermTol == FeasTolDen \div FeasTolDen

\* A faulty deviation test that does not look at the curvature of the rhs.
TermDeviationAnyCurvature(t) ==
    IF /\ t.aux > t.rhs + TermTol
       /\ t.relaxation_side \in {"BOTH", "OVER"}
    THEN Some(t.aux - t.rhs)
    ELSE IF /\ t.aux < t.rhs - TermTol
            /\ t.relaxation_side \in {"BOTH", "UNDER"}
    THEN Some(t.rhs - t.aux)
    ELSE None

\* The entry of dev_list for a term, None when the term gets none.
TermDeviation(t) ==
    IF /\ t.aux > t.rhs + TermTol
       /\ t.relaxation_side \in {"BOTH", "OVER"}
       /\ ~t.is_rhs_concave
    THEN Some(t.aux - t.rhs)
    ELSE IF /\ t.aux < t.rhs - TermTol
            /\ t.relaxation_side \in {"BOTH", "UNDER"}
            /\ ~t.is_rhs_convex
    THEN Some(t.rhs - t.aux)
    ELSE None

\* dev_list as the loop over the terms from the i-th on appends to it:
\* pairs of a term's position and its deviation.
RECURSIVE DevListFrom(_, _)
DevListFrom(ts, i) ==
    IF i > Len(ts) THEN <<>>
    ELSE LET d == TermDeviation(ts[i])
         IN  IF IsNone(d) THEN DevListFrom(ts, i + 1)
             ELSE <<<<i, Val(d)>>>> \o DevListFrom(ts, i + 1)

\* A faulty insertion that puts an entry before the entries that equal it.
RECURSIVE InsertByDevBeforeTies(_, _)
InsertByDevBeforeTies(e, sorted) ==
    IF sorted = <<>> THEN <<e>>
    ELSE IF Head(sorted)[2] > e[2]
    THEN <<Head(sorted)>> \o InsertByDevBeforeTies(e, Tail(sorted))
    ELSE <<e>> \o sorted

\* list.sort(key=deviation, reverse=True) is stable: an entry goes after
\* every entry that is larger or equal and was in the list before it.
RECURSIVE InsertByDev(_, _)
InsertByDev(e, sorted) ==
    IF sorted = <<>> THEN <<e>>
    ELSE IF Head(sorted)[2] >= e[2]
    THEN <<Head(sorted)>> \o InsertByDev(e, Tail(sorted))
    ELSE <<e>> \o sorted

\* The first n entries of dev_list, sorted.
RECURSIVE SortByDev(_, _)
SortByDev(dev_list, n) ==
    IF n = 0 THEN <<>>
    ELSE InsertByDev(dev_list[n], SortByDev(dev_list, n - 1))

\* A faulty helper that partitions the terms although it flagged the error.
partition_helper_ignoring_err(ts, K) ==
    LET sorted == SortByDev(DevListFrom(ts, 1), Len(DevListFrom(ts, 1)))
        kept == SubSeq(sorted, 1, IF K < Len(sorted) THEN K ELSE Len(sorted))
    IN  [err |-> \E i \in 1..Len(ts) : ~ts[i].has_bounds,
         refined |-> [j \in 1..Len(kept) |-> kept[j][1]]]

\* _partition_helper on the terms ts with max_partitions_per_iter = K:
\* whether it set the stop flag to error, and the positions of the terms
\* it partitioned and rebuilt, in the order it took them.
_partition_helper(ts, K) ==
    LET err == \E i \in 1..Len(ts) : ~ts[i].has_bounds
        dev_list == DevListFrom(ts, 1)
        sorted == SortByDev(dev_list, Len(dev_list))
        kept == SubSeq(sorted, 1, IF K < Len(sorted) THEN K ELSE Len(sorted))
    IN  [err |-> err,
         refined |-> IF err THEN <<>>
                     ELSE [j \in 1..Len(kept) |-> kept[j][1]]]

\* One call of _partition_helper on the terms ts, then pc' = next_pc.
PartitionStep(ts, next_pc) ==
    LET out == _partition_helper(ts, max_partitions_per_iter)
    IN  /\ terms' = ts
        /\ refined' = Some(out.refined)
        /\ stop' = IF out.err THEN Some("error") ELSE stop
        /\ pc' = next_pc
        /\ UNCHANGED <<fault, modelVars, relVars, nlp_val, nlpModelVars,
                       boundVars, iter, statusVars, rel_res, nlp_res, nlp_step, oaVars,
                       evalVars, max_partitions_per_iter, new_con_list,
                       cfgVars, domVars, alphaVars, log_line, outVars>>

\* The terms of the model solve was given, as the relaxation solution
\* loaded last left them: each a term relaxed on both sides of a rhs that
\* is neither convex nor concave, its auxiliary variable off by the
\* deviation it reports.
RunTerms ==
    [i \in 1..nterms |->
        [aux |-> Val(term_dev[i]) * FeasTolDen,
         rhs |-> 0,
         relaxation_side |-> "BOTH",
         is_rhs_convex |-> FALSE,
         is_rhs_concave |-> FALSE,
         has_bounds |-> ~rel_unbounded]]

\* The partitioning step of a main-loop pass.
MainPartition ==
    /\ pc = "main_partition"
    /\ PartitionStep(RunTerms, "main_top")

Next ==
    \/ Solve
    \/ Check0
    \/ OAEnter
    \/ OAFor
    \/ OATop
    \/ OASolve
    \/ OAAfterSolve
    \/ OACuts
    \/ Check1
    \/ Check2
    \/ RootNLP
    \/ RootOBBT
    \/ RootPop
    \/ MainTop
    \/ MainSolve
    \/ MainAfterSolve
    \/ MainNLP
    \/ MainCuts
    \/ MainPartition

Spec == Init /\ [][Next]_vars

\* A step of the call in progress: every action but a new call of solve.
RunStep == Next /\ pc' # "check0"

\* solve runs to its end once called: its steps are ordinary sequential
\* code and each backend call returns, so a call that can take a step
\* eventually takes it.  Calling solve again is left to the caller.
LiveSpec == Init /\ [][Next]_vars /\ WF_vars(RunStep)

\* --------------------------------------------------- _add_oa_cuts on its own
\* One call of _add_oa_cuts, the second of solve, from its entry to its
\* return: on a model with one term, for either answer of
\* _is_problem_definitely_convex, either sense, and a backend whose
\* update_config the caller set in one of several ways.
EntryConfigs ==
    {UpdateFlags, {}, LoopFlags, {"update_vars", "update_named_expressions"}}

OAInit ==
    /\ pc = "oa_enter"
    /\ oa_phase = 2
    /\ is_convex \in {Some(TRUE), Some(FALSE)}
    /\ update_config \in EntryConfigs
    /\ sense \in Senses
    /\ nterms = 1
    /\ fault = "none"
    /\ time_up = FALSE
    /\ load_solution = None
    /\ rel_unbounded = FALSE
    /\ disc_unbounded = FALSE
    /\ term_dev = <<None>>
    /\ rel_val = [v \in RelVars |-> None]
    /\ nlp_val = [v \in NlpVars |-> None]
    /\ nlp_fixed = [v \in NlpVars |-> FALSE]
    /\ nlp_lb = NlpLb0
    /\ nlp_ub = NlpUb0
    /\ nlp_con = Cons
    /\ best_feasible_objective = None
    /\ incumbent = None
    /\ best_objective_bound = None
    /\ stop = None
    /\ iter = 0
    /\ nlp_termination = "unknown"
    /\ rel_termination = "unknown"
    /\ rel_res = None
    /\ nlp_res = None
    /\ nlp_step = None
    /\ oa_k = 0
    /\ oa_results = None
    /\ decision = None
    /\ chk_gap = None
    /\ log_line = None
    /\ result = None
    /\ loaded = None
    /\ terms = <<>>
    /\ max_partitions_per_iter = DefaultMaxPartitions
    /\ refined = None
    /\ new_con_list = None
    /\ original_update_config = None
    /\ xs = <<>>
    /\ hess = <<>>
    /\ alpha = None
    /\ rel_domain = DiscDomain0
    /\ relaxed = Some(relaxed_by_push(DiscDomain0))

OANext ==
    \/ OAEnter
    \/ OAFor
    \/ OATop
    \/ OASolve
    \/ OAAfterSolve
    \/ OACuts

OASpec == OAInit /\ [][OANext]_vars

\* ------------------------------------------ _partition_helper on its own
\* _partition_helper is a function of the terms and of the cap; this
\* specification applies it to every list of up to MaxTerms terms.
MaxTerms == 2
\* Values of a term's auxiliary variable, in units of 1 / FeasTolDen,
\* around a rhs value of 0: beyond the tolerance on either side, and on it.
PartAuxVals == {-2, -1, 1, 2, 3}
PartCaps == {1, 2}
PartTerms ==
    {t \in [aux : PartAuxVals,
            rhs : {0},
            relaxation_side : RelaxationSides,
            is_rhs_convex : BOOLEAN,
            is_rhs_concave : BOOLEAN,
            has_bounds : {TRUE}] :
        ~(t.is_rhs_convex /\ t.is_rhs_concave)}

PartInit ==
    /\ pc = "partition"
    /\ terms \in UNION {[1..n -> PartTerms] : n \in 0..MaxTerms}
    /\ max_partitions_per_iter \in PartCaps
    /\ refined = None
    /\ new_con_list = None
    /\ update_config = UpdateFlags
    /\ original_update_config = None
    /\ xs = <<>>
    /\ hess = <<>>
    /\ alpha = None
    /\ rel_domain = DiscDomain0
    /\ relaxed = None
    /\ fault = "none"
    /\ time_up = FALSE
    /\ load_solution = None
    /\ sense = "minimize"
    /\ nterms = Len(terms)
    /\ rel_unbounded = FALSE
    /\ disc_unbounded = FALSE
    /\ is_convex = None
    /\ term_dev = [i \in 1..Len(terms) |-> None]
    /\ rel_val = [v \in RelVars |-> None]
    /\ nlp_val = [v \in NlpVars |-> None]
    /\ nlp_fixed = [v \in NlpVars |-> FALSE]
    /\ nlp_lb = NlpLb0
    /\ nlp_ub = NlpUb0
    /\ nlp_con = Cons
    /\ best_feasible_objective = None
    /\ incumbent = None
    /\ best_objective_bound = None
    /\ stop = None
    /\ iter = 0
    /\ nlp_termination = "unknown"
    /\ rel_termination = "unknown"
    /\ rel_res = None
    /\ nlp_res = None
    /\ nlp_step = None
    /\ oa_phase = 0
    /\ oa_k = 0
    /\ oa_results = None
    /\ decision = None
    /\ chk_gap = None
    /\ log_line = None
    /\ result = None
    /\ loaded = None

\* One call of _partition_helper.
Partition ==
    /\ pc = "partition"
    /\ PartitionStep(terms, "partitioned")

PartNext == Partition

PartSpec == PartInit /\ [][PartNext]_vars

\* ------------------------------------------ the bound tracker on its own
\* _should_terminate and _log are functions of the run state alone; this
\* specification starts them from every run state over these values.
EvalFeasVals == {-1000, 0, 5, 1000, 1001}
EvalBoundVals == {-1000, 3, 5, 1000, 1001}
EvalStops == {None, Some("unknown"), Some("error")}

EvalInit ==
    /\ pc = "eval"
    /\ fault = "none"
    /\ time_up = FALSE
    /\ load_solution = None
    /\ sense \in Senses
    /\ nterms = 1
    /\ rel_unbounded = FALSE
    /\ disc_unbounded = FALSE
    /\ is_convex = None
    /\ term_dev = <<None>>
    /\ rel_val = [v \in RelVars |-> None]
    /\ nlp_val = [v \in NlpVars |-> None]
    /\ nlp_fixed = [v \in NlpVars |-> FALSE]
    /\ nlp_lb = NlpLb0
    /\ nlp_ub = NlpUb0
    /\ nlp_con = Cons
    /\ best_feasible_objective \in {None} \cup {Some(v) : v \in EvalFeasVals}
    /\ incumbent = None
    /\ best_objective_bound \in {None} \cup {Some(v) : v \in EvalBoundVals}
    /\ stop \in EvalStops
    /\ iter \in 0..MaxIter
    /\ nlp_termination = "unknown"
    /\ rel_termination = "unknown"
    /\ rel_res = None
    /\ nlp_res = None
    /\ nlp_step = None
    /\ oa_phase = 0
    /\ oa_k = 0
    /\ oa_results = None
    /\ decision = None
    /\ chk_gap = None
    /\ log_line = None
    /\ result = None
    /\ loaded = None
    /\ terms = <<>>
    /\ max_partitions_per_iter = DefaultMaxPartitions
    /\ refined = None
    /\ new_con_list = None
    /\ update_config = UpdateFlags
    /\ original_update_config = None
    /\ xs = <<>>
    /\ hess = <<>>
    /\ alpha = None
    /\ rel_domain = DiscDomain0
    /\ relaxed = None

\* One call of _should_terminate.
Evaluate ==
    /\ pc = "eval"
    /\ \E t \in ClockReads : Evaluation(t)
    /\ pc' = "evaluated"
    /\ UNCHANGED <<cfgVars, domVars, alphaVars>>
    /\ UNCHANGED <<fault, modelVars, relVars, nlp_val, nlpModelVars, boundVars,
                   stop, iter, statusVars, rel_res, nlp_res, nlp_step, oaVars, log_line,
                   outVars>>

\* One call of _log(header=False).
EvalLog ==
    /\ pc \in {"eval", "evaluated"}
    /\ IsNone(log_line)
    /\ ~LogFaults(best_objective_bound)
    /\ log_line' = Some(LogLine(best_feasible_objective, best_objective_bound,
                                iter))
    /\ UNCHANGED <<pc, fault, modelVars, relVars, nlp_val, nlpModelVars,
                   boundVars, stop, iter, statusVars, rel_res, nlp_res, nlp_step, oaVars,
                   evalVars, partVars, cfgVars, domVars, alphaVars, outVars>>

EvalNext ==
    \/ Evaluate
    \/ EvalLog

EvalSpec == EvalInit /\ [][EvalNext]_vars

\* ------------------------------------------------ _compute_alpha on its own
\* alpha is kept in units of 1/AlphaDen, so that -0.5 * tot is exact.
AlphaDen == 2

\* The interval bounds of entry (i, j) of the Hessian h, a missing entry
\* being the expression 0.
EntryBounds(h, i, j) ==
    IF IsNone(h[<<i, j>>]) THEN <<0, 0>> ELSE Val(h[<<i, j>>])

\* A faulty magnitude that looks at the upper endpoint only.
MagnitudeOfUpper(a_ij) == Abs(a_ij[2])

\* max(abs(a_ij[0]), abs(a_ij[1]))
Magnitude(a_ij) == Max(Abs(a_ij[1]), Abs(a_ij[2]))

\* tot of row i once the inner loop has run from column j on.
RECURSIVE RowTotalFrom(_, _, _, _, _)
RowTotalFrom(vs, h, i, j, tot) ==
    IF j > Len(vs) THEN tot
    ELSE RowTotalFrom(vs, h, i, j + 1,
                      IF i = j THEN tot
                      ELSE tot - Magnitude(EntryBounds(h, i, j)))

\* alpha once the outer loop has run from row i on, a being alpha before.
RECURSIVE AlphaFrom(_, _, _, _)
AlphaFrom(vs, h, i, a) ==
    IF i > Len(vs) THEN a
    ELSE LET tot == RowTotalFrom(vs, h, i, 1, EntryBounds(h, i, i)[1])
             \* tot = - 0.5 * tot, in units of 1/AlphaDen
             scaled == (0 - tot) * (AlphaDen \div 2)
         IN  AlphaFrom(vs, h, i + 1, IF scaled > a THEN scaled ELSE a)

_compute_alpha(vs, h) == AlphaFrom(vs, h, 1, 0)

\* The lists of variables and the interval Hessians _compute_alpha is
\* called with: up to three variables; each entry missing or an interval.
AlphaLens == {0, 1, 2, 3}
AlphaEntries(n) ==
    IF n < 3
    THEN {None, Some(<<0, 0>>), Some(<<-2, -2>>), Some(<<-3, 1>>),
          Some(<<3, 4>>)}
    ELSE {None, Some(<<-3, 1>>), Some(<<3, 4>>)}

AlphaInit ==
    /\ pc = "idle"
    /\ fault = "none"
    /\ time_up = FALSE
    /\ load_solution = None
    /\ sense = "minimize"
    /\ nterms = 0
    /\ rel_unbounded = FALSE
    /\ disc_unbounded = FALSE
    /\ is_convex = None
    /\ term_dev = <<>>
    /\ rel_val = [v \in RelVars |-> None]
    /\ nlp_val = [v \in NlpVars |-> None]
    /\ nlp_fixed = [v \in NlpVars |-> FALSE]
    /\ nlp_lb = NlpLb0
    /\ nlp_ub = NlpUb0
    /\ nlp_con = Cons
    /\ best_feasible_objective = None
    /\ incumbent = None
    /\ best_objective_bound = None
    /\ stop = None
    /\ iter = 0
    /\ nlp_termination = "unknown"
    /\ rel_termination = "unknown"
    /\ rel_res = None
    /\ nlp_res = None
    /\ nlp_step = None
    /\ oa_phase = 0
    /\ oa_k = 0
    /\ oa_results = None
    /\ decision = None
    /\ chk_gap = None
    /\ log_line = None
    /\ result = None
    /\ loaded = None
    /\ terms = <<>>
    /\ max_partitions_per_iter = DefaultMaxPartitions
    /\ refined = None
    /\ new_con_list = None
    /\ update_config = UpdateFlags
    /\ original_update_config = None
    /\ xs \in {[i \in 1..n |-> i] : n \in AlphaLens}
    /\ hess \in [(1..Len(xs)) \X (1..Len(xs)) -> AlphaEntries(Len(xs))]
    /\ alpha = None
    /\ rel_domain = DiscDomain0
    /\ relaxed = None

ComputeAlpha ==
    /\ IsNone(alpha)
    /\ alpha' = Some(_compute_alpha(xs, hess))
    /\ UNCHANGED <<pc, fault, modelVars, relVars, nlp_val, nlpModelVars,
                   boundVars, stop, iter, statusVars, rel_res, nlp_res,
                   nlp_step, oaVars, evalVars, partVars, cfgVars, domVars,
                   log_line, outVars, xs, hess>>

AlphaNext == ComputeAlpha

AlphaSpec == AlphaInit /\ [][AlphaNext]_vars

\* ============================================================ properties
\* The primal bound is better than the dual bound by more than
\* eps*max(|primal|,|dual|) + eps, eps = 1e-6.
BoundsCrossed ==
    /\ ~IsNone(best_feasible_objective)
    /\ ~IsNone(best_objective_bound)
    /\ LET p == Val(best_feasible_objective)
           d == Val(best_objective_bound)
       IN  IF sense = "minimize"
           THEN (d - p) * EpsDen > Max(Abs(p), Abs(d)) + 1
           ELSE (p - d) * EpsDen > Max(Abs(p), Abs(d)) + 1

\* No limit is reached and no stop flag is set.
NoEarlyReturn == ~time_up /\ iter < MaxIter /\ IsNone(stop)

\* Both bounds are set and |primal - dual| <= abs_gap.
AbsGapWithin ==
    /\ ~IsNone(best_feasible_objective)
    /\ ~IsNone(best_objective_bound)
    /\ Abs(Val(best_feasible_objective) - Val(best_objective_bound))
           * AbsGapDen <= 1

\* Both bounds are set and the relative gap is <= mip_gap.
RelGapWithin ==
    /\ ~IsNone(best_feasible_objective)
    /\ ~IsNone(best_objective_bound)
    /\ LET p == Val(best_feasible_objective)
           d == Val(best_objective_bound)
       IN  \/ p = d
           \/ p # 0 /\ Abs(p - d) * MipGapDen <= Abs(p)

\* The decision the order (1)..(5) gives.
FirstMatch ==
    IF time_up THEN <<"stop", "maxTimeLimit">>
    ELSE IF iter >= MaxIter THEN <<"stop", "maxIterations">>
    ELSE IF ~IsNone(stop) THEN <<"stop", Val(stop)>>
    ELSE IF AbsGapWithin THEN <<"stop", "optimal">>
    ELSE IF RelGapWithin THEN <<"stop", "optimal">>
    ELSE <<"continue", "unknown">>

\* C1, as stated: for every combination of inputs the evaluator's decision
\* is the first match of (1) time limit, (2) iteration limit, (3) stop flag,
\* (4) absolute gap, (5) relative gap, else (continue, unknown).
C1_Original == pc = "evaluated" => decision = FirstMatch

\* C1, amended: the decision is the first match of (1) time limit,
\* (2) iteration limit, (3) stop flag; then, when the primal bound is better
\* than the dual bound beyond the tolerance, the evaluation aborts with an
\* AssertionError instead of deciding; otherwise (4) absolute gap,
\* (5) relative gap, else (continue, unknown).
C1_DecisionOrder ==
    pc = "evaluated" =>
        decision = IF NoEarlyReturn /\ BoundsCrossed
                   THEN <<"fault", "AssertionError">>
                   ELSE FirstMatch

\* A recorded stop reason has won over a closed gap.
C1_Witness ==
    /\ pc = "evaluated"
    /\ ~time_up
    /\ iter < MaxIter
    /\ ~IsNone(stop)
    /\ AbsGapWithin
    /\ decision = <<"stop", Val(stop)>>

\* C2, as stated: whenever the evaluator runs while the primal bound is
\* better than the dual bound beyond the tolerance, it aborts with a fault
\* instead of returning a decision, whatever the elapsed time, the
\* iteration count and the stop flag are.
C2_Original ==
    (pc = "evaluated" /\ BoundsCrossed) => decision[1] = "fault"

\* C2, amended: the evaluator aborts with a fault exactly when the primal
\* bound is better than the dual bound beyond the tolerance and no time
\* limit, no iteration limit and no stop flag made it return first, for
\* minimize and maximize alike; with a limit reached or a stop flag set it
\* returns that stop decision without looking at the bounds.
C2_SoundnessChecked ==
    pc = "evaluated" =>
        (decision[1] = "fault" <=> (BoundsCrossed /\ NoEarlyReturn))

\* A maximize run's evaluation has aborted on crossed bounds.
C2_Witness ==
    /\ pc = "evaluated"
    /\ sense = "maximize"
    /\ BoundsCrossed
    /\ decision = <<"fault", "AssertionError">>

\* c is a better dual bound than cur: larger for minimize, smaller for
\* maximize; a better feasible objective is the other way round.
BetterBound(c, cur) == IF sense = "minimize" THEN c > cur ELSE c < cur
BetterObjective(c, cur) == IF sense = "minimize" THEN c < cur ELSE c > cur

\* A step of a run (not the start of a new one).
WithinRun == pc' # "check0"

\* C3: within one run the tracked dual bound never regresses: it changes
\* only to a candidate that is the first or strictly better, and a
\* relaxation solve whose candidate is absent, equal or worse leaves it
\* unchanged.
C3_DualNeverRegresses ==
    [][WithinRun =>
        /\ best_objective_bound' # best_objective_bound =>
              /\ ~IsNone(best_objective_bound')
              /\ \/ IsNone(best_objective_bound)
                 \/ BetterBound(Val(best_objective_bound'),
                                Val(best_objective_bound))
        /\ (pc \in {"oa_solve", "main_solve"} /\ ~IsNone(rel_res')) =>
              LET c == Val(rel_res').best_objective_bound
              IN  best_objective_bound' =
                     IF /\ ~IsNone(c)
                        /\ \/ IsNone(best_objective_bound)
                           \/ BetterBound(Val(c), Val(best_objective_bound))
                     THEN c
                     ELSE best_objective_bound]_vars

\* A minimize run's relaxation solve has offered -1000 against a tracked
\* bound of 1000, which stands.
C3_Witness ==
    /\ sense = "minimize"
    /\ ~IsNone(rel_res)
    /\ Val(rel_res).best_objective_bound = Some(-1000)
    /\ best_objective_bound = Some(1000)

\* Every term's deviation is within feasibility_tolerance and every
\* discrete variable has an integer value (values are in tenths).
Validated(devs, vals) ==
    /\ Len(devs) > 0
    /\ \A i \in 1..Len(devs) :
          ~IsNone(devs[i]) /\ Val(devs[i]) * FeasTolDen <= 1
    /\ \A i \in 1..Len(DiscNames) :
          /\ ~IsNone(vals[RelVar(DiscNames[i])])
          /\ Val(vals[RelVar(DiscNames[i])]) % DiscUnit = 0

\* The candidate f strictly improves the tracked feasible objective.
Improves(f) ==
    /\ ~IsNone(f)
    /\ \/ IsNone(best_feasible_objective)
       \/ BetterObjective(Val(f), Val(best_feasible_objective))

\* C4, as stated: every change of the tracked feasible objective or of the
\* incumbent, from a relaxation solve or from the NLP fixing step, is a
\* strict improvement made with every deviation within tolerance and every
\* discrete variable integral.
C4_Original ==
    [][(/\ WithinRun
        /\ \/ best_feasible_objective' # best_feasible_objective
           \/ incumbent' # incumbent)
       => /\ Improves(best_feasible_objective')
          /\ Validated(term_dev', rel_val')]_vars

\* C4, amended: a relaxation solve's candidate is accepted exactly when it
\* passes the validation (deviations within tolerance, discrete variables
\* integral) and strictly improves; otherwise the tracked objective and the
\* incumbent stay.  The NLP fixing step's candidate is accepted on strict
\* improvement alone, without that validation.  Nothing else changes them.
C4_PrimalUpdate ==
    [][WithinRun =>
        /\ (pc \in {"oa_solve", "main_solve"} /\ ~IsNone(rel_res')) =>
              LET f == Val(rel_res').best_feasible_objective
              IN  IF Improves(f) /\ Validated(term_dev', rel_val')
                  THEN /\ best_feasible_objective' = f
                       /\ incumbent' =
                             Some([ov \in OrigVars |-> rel_val'[RelVar(ov[2])]])
                  ELSE UNCHANGED <<best_feasible_objective, incumbent>>
        /\ (pc \in {"root_nlp", "main_nlp"} /\ ~IsNone(nlp_res')) =>
              LET f == Val(nlp_res').best_feasible_objective
              IN  IF Improves(f)
                  THEN /\ best_feasible_objective' = f
                       /\ incumbent' =
                             Some([ov \in OrigVars |-> nlp_val'[NlpVar(ov[2])]])
                  ELSE UNCHANGED <<best_feasible_objective, incumbent>>
        /\ ~(\/ pc \in {"oa_solve", "main_solve"} /\ ~IsNone(rel_res')
             \/ pc \in {"root_nlp", "main_nlp"} /\ ~IsNone(nlp_res'))
              => UNCHANGED <<best_feasible_objective, incumbent>>]_vars

\* A relaxation candidate with a discrete value of 1.4 has been rejected.
C4_Witness ==
    /\ ~IsNone(rel_res)
    /\ ~IsNone(Val(rel_res).best_feasible_objective)
    /\ rel_val[RelVar("x2")] = Some(14)
    /\ IsNone(best_feasible_objective)
    /\ IsNone(incumbent)

PrimalRead ==
    IF ~IsNone(best_feasible_objective) THEN Fin(Val(best_feasible_objective))
    ELSE IF sense = "minimize" THEN PInf ELSE NInf

DualRead ==
    IF ~IsNone(best_objective_bound) THEN Fin(Val(best_objective_bound))
    ELSE IF sense = "minimize" THEN NInf ELSE PInf

\* |primal - dual|, +inf when either is infinite.
AbsGapRead ==
    IF IsFin(PrimalRead) /\ IsFin(DualRead)
    THEN Fin(Abs(PrimalRead[2] - DualRead[2]))
    ELSE PInf

\* Two relative gaps <<s, num, den>> are the same number.
SameRatio(a, b) ==
    /\ a[1] = b[1]
    /\ a[1] = 0 => a[2] * b[3] = b[2] * a[3]

\* C6: the gap _log computes from the bounds is absolute gap
\* |primal - dual| and relative gap 0 if the absolute gap is 0, +inf if the
\* primal bound is 0 or the absolute gap is infinite, absolute/|primal|
\* otherwise; so gap(5,5) = (0,0), gap(0,3) = (3,+inf) and
\* gap(+inf,-inf) = (+inf,+inf).
C6_GapFormula ==
    ~IsNone(log_line) =>
        LET l == Val(log_line)
        IN  /\ l.primal_bound = PrimalRead
            /\ l.dual_bound = DualRead
            /\ l.gap[1] = AbsGapRead
            /\ IF AbsGapRead = Fin(0) THEN SameRatio(l.gap[2], <<0, 0, 1>>)
               ELSE IF PrimalRead = Fin(0) \/ ~IsFin(AbsGapRead)
               THEN l.gap[2][1] = 1
               ELSE SameRatio(l.gap[2],
                              <<0, AbsGapRead[2], Abs(PrimalRead[2])>>)
            /\ (PrimalRead = Fin(5) /\ DualRead = Fin(5))
                  => l.gap = <<Fin(0), <<0, 0, 1>>>>
            /\ (PrimalRead = Fin(0) /\ DualRead = Fin(3))
                  => l.gap[1] = Fin(3) /\ l.gap[2][1] = 1
            /\ (PrimalRead = PInf /\ DualRead = NInf)
                  => l.gap[1] = PInf /\ l.gap[2][1] = 1

\* _log has computed the gap of primal 0 and dual 3: (3, +inf).
C6_Witness ==
    /\ ~IsNone(log_line)
    /\ best_feasible_objective = Some(0)
    /\ best_objective_bound = Some(3)
    /\ Val(log_line).gap[1] = Fin(3)
    /\ Val(log_line).gap[2][1] = 1

\* An evaluation of solve itself has fired: solve is past its return.
EvaluatorFired ==
    /\ ~IsNone(decision)
    /\ decision[1] = "stop"
    /\ pc \notin {"check1", "check2"}

\* solve has returned a result with the tracked bounds and the evaluator's
\* reason.
ResultReturned ==
    /\ pc = "done"
    /\ ~IsNone(result)
    /\ Val(result).termination_condition = decision[2]
    /\ Val(result).best_feasible_objective = best_feasible_objective
    /\ Val(result).best_objective_bound = best_objective_bound

\* C7, as stated: whenever the evaluator fires solve returns a result whose
\* bounds are the tracked ones and whose status is the evaluator's reason,
\* also when no feasible solution has been found.
C7_Original == EvaluatorFired => ResultReturned

\* C7, amended: whenever the evaluator fires solve returns such a result,
\* except that with load_solution requested and no feasible solution found
\* solve raises RuntimeError and returns no result.
C7_ResultCarriesBounds ==
    EvaluatorFired =>
        IF load_solution = Some(TRUE) /\ IsNone(best_feasible_objective)
        THEN pc = "raised" /\ fault = "RuntimeError" /\ IsNone(result)
        ELSE ResultReturned

\* solve has returned at the iteration limit with a dual bound and no
\* feasible solution.
C7_Witness ==
    /\ pc = "done"
    /\ IsNone(best_feasible_objective)
    /\ ~IsNone(best_objective_bound)
    /\ ~IsNone(result)
    /\ Val(result).termination_condition = "maxIterations"
    /\ Val(result).best_objective_bound = best_objective_bound

\* C8: with load_solution requested and no feasible solution recorded,
\* result assembly raises RuntimeError and loads nothing, and only then;
\* with a feasible solution recorded the result's loader is the incumbent,
\* a map over the original model's variables (loaded when requested);
\* with none recorded the result has no incumbent loader.
C8_LoaderContract ==
    /\ (EvaluatorFired /\ load_solution = Some(TRUE)
            /\ IsNone(best_feasible_objective))
          => pc = "raised" /\ fault = "RuntimeError" /\ IsNone(loaded)
    /\ (pc = "raised" /\ fault = "RuntimeError")
          => /\ load_solution = Some(TRUE)
             /\ IsNone(best_feasible_objective)
             /\ IsNone(loaded)
    /\ (pc = "done" /\ ~IsNone(best_feasible_objective))
          => /\ ~IsNone(incumbent)
             /\ DOMAIN Val(incumbent) = OrigVars
             /\ Val(result).solution_loader = incumbent
             /\ load_solution = Some(TRUE) => loaded = incumbent
    /\ (pc = "done" /\ IsNone(best_feasible_objective))
          => IsNone(Val(result).solution_loader) /\ IsNone(loaded)

\* Result assembly has raised RuntimeError: loading was requested and there
\* is nothing to load.
C8_Witness ==
    /\ pc = "raised"
    /\ fault = "RuntimeError"
    /\ load_solution = Some(TRUE)
    /\ IsNone(loaded)

\* C9: at the start of every solve call, whatever the previous run left,
\* the best feasible objective, the incumbent, the best objective bound
\* and the stop flag are unset, the iteration counter is 0 and both
\* sub-solver termination statuses are unknown.
C9_CleanStart ==
    pc = "check0" =>
        /\ IsNone(best_feasible_objective)
        /\ IsNone(incumbent)
        /\ IsNone(best_objective_bound)
        /\ IsNone(stop)
        /\ iter = 0
        /\ nlp_termination = "unknown"
        /\ rel_termination = "unknown"

\* A solve call starts on a controller whose previous run had solved
\* sub-problems and recorded a feasible objective (its last log line).
C9_Witness ==
    /\ pc = "check0"
    /\ ~IsNone(log_line)
    /\ IsFin(Val(log_line).primal_bound)
    /\ Val(log_line).iter > 0
    /\ IsNone(best_feasible_objective)
    /\ IsNone(stop)

\* C10: when control is outside _solve_nlp_with_fixed_vars, every NLP
\* variable has the bounds and the fixed status it had on entry and every
\* constraint active on entry is active.
C10_ScopedMutation ==
    /\ nlp_fixed = [v \in NlpVars |-> FALSE]
    /\ nlp_lb = NlpLb0
    /\ nlp_ub = NlpUb0
    /\ nlp_con = Cons

\* A relaxation solve that returned to its caller.
RelaxationReturned ==
    /\ pc \in {"oa_solve", "main_solve"}
    /\ pc' # "raised"

\* The pcs at which solve or the OA loop consults the evaluator.
EvaluationPcs ==
    {"check0", "oa_top", "oa_after_solve", "check1", "check2", "main_top",
     "main_after_solve"}

\* C11: a relaxation solve that returns a status outside {optimal,
\* maxTimeLimit, maxIterations, objectiveLimit, interrupted} records that
\* status as the stop flag and a status inside the set leaves the flag
\* alone; while the flag is set the only steps of the run are termination
\* evaluations, each of which stops with the flag's status or with a time
\* or iteration limit, and the iteration counter no longer moves, so no
\* further MIP or NLP backend solve is issued.
C11_FatalStatusStops ==
    [][/\ RelaxationReturned =>
            stop' = IF rel_termination' \in
                        {"optimal", "maxTimeLimit", "maxIterations",
                         "objectiveLimit", "interrupted"}
                    THEN stop
                    ELSE Some(rel_termination')
       /\ (~IsNone(stop) /\ WithinRun) =>
            /\ pc \in EvaluationPcs
            /\ decision'[1] = "stop"
            /\ decision'[2] \in {Val(stop), "maxTimeLimit", "maxIterations"}
            /\ iter' = iter
            /\ pc' \in {"check1", "check2", "done", "raised"}]_vars

\* A run that ended with the backend's intolerable status before the
\* iteration limit.
C11_Witness ==
    /\ pc = "done"
    /\ stop = Some("unknown")
    /\ rel_termination = "unknown"
    /\ Val(result).termination_condition = "unknown"
    /\ iter < MaxIter

Partitioned == pc = "partitioned"

\* The positions of the terms the call refined.
RefinedSet == {Val(refined)[j] : j \in 1..Len(Val(refined))}

\* A term is violated from above, from below, by more than the tolerance.
ViolatedAbove(t) == t.aux - t.rhs > 1
ViolatedBelow(t) == t.rhs - t.aux > 1

\* A term is eligible for refinement.
Eligible(t) ==
    \/ /\ ViolatedAbove(t)
       /\ t.relaxation_side \in {"OVER", "BOTH"}
       /\ ~t.is_rhs_concave
    \/ /\ ViolatedBelow(t)
       /\ t.relaxation_side \in {"UNDER", "BOTH"}
       /\ ~t.is_rhs_convex

EligibleTerms == {i \in 1..Len(terms) : Eligible(terms[i])}

\* Term i comes before term j in the order of refinement: by deviation
\* descending, ties in the order of enumeration.
Ahead(i, j) ==
    LET di == Abs(terms[i].aux - terms[i].rhs)
        dj == Abs(terms[j].aux - terms[j].rhs)
    IN  di > dj \/ (di = dj /\ i < j)

PartitionOfUnbounded ==
    /\ pc = "main_partition"
    /\ nterms > 0
    /\ rel_unbounded

\* That step raises nothing, sets the stop flag to error and refines no
\* term.
FlagsUnbounded ==
    /\ pc' = "main_top"
    /\ fault' = fault
    /\ stop' = Some("error")
    /\ refined' = Some(<<>>)

\* The evaluation that follows the flagged step.
EvaluationOfFlagged ==
    /\ pc = "main_top"
    /\ stop = Some("error")

\* solve returns, in this step, a result with the tracked bounds.
ReturnsBounds ==
    /\ pc' = "done"
    /\ decision'[1] = "stop"
    /\ Val(result').termination_condition = decision'[2]
    /\ Val(result').best_feasible_objective = best_feasible_objective
    /\ Val(result').best_objective_bound = best_objective_bound

\* C14, as stated: the partitioning step of a model with an unbounded rhs
\* variable raises no fault, sets the stop flag to error and refines no
\* term, and the evaluation that follows stops the run with the bounds
\* found so far retrievable in the result.
C14_Original ==
    [][/\ PartitionOfUnbounded => FlagsUnbounded
       /\ EvaluationOfFlagged => ReturnsBounds]_vars

\* C14, amended: the step raises no fault, sets the stop flag to error and
\* refines no term, and the evaluation that follows stops the run, with
\* status error or a time or iteration limit; the result carries the
\* bounds found so far, except that with load_solution requested and no
\* feasible solution found solve raises RuntimeError and returns no result.
C14_UnboundedTermStops ==
    [][/\ PartitionOfUnbounded => FlagsUnbounded
       /\ EvaluationOfFlagged =>
            /\ decision'[1] = "stop"
            /\ decision'[2] \in {"error", "maxTimeLimit", "maxIterations"}
            /\ IF load_solution' = Some(TRUE)
                    /\ IsNone(best_feasible_objective)
               THEN /\ pc' = "raised"
                    /\ fault' = "RuntimeError"
                    /\ IsNone(result')
               ELSE ReturnsBounds]_vars

\* A run that stopped at the evaluation after the flagged step, with a
\* dual bound found and no feasible solution.
C14_Witness ==
    /\ pc = "done"
    /\ rel_unbounded
    /\ stop = Some("error")
    /\ decision[1] = "stop"
    /\ Val(result).best_objective_bound = best_objective_bound
    /\ ~IsNone(Val(result).best_objective_bound)
    /\ IsNone(Val(result).best_feasible_objective)

\* C15, as the specification states it: a discrete variable of the
\* relaxation without a finite lower or upper bound is a fatal
\* configuration error, so every run on such a model that returns a
\* result, unless a time or iteration limit or an intolerable backend
\* status ended it first, has set the stop flag to error and returns that
\* status, also when the variable appears in no relaxation term.
C15_UnboundedDiscreteIsFatal ==
    (/\ disc_unbounded
     /\ pc = "done"
     /\ Val(result).termination_condition
            \notin {"maxTimeLimit", "maxIterations", "unknown"}) =>
        /\ stop = Some("error")
        /\ Val(result).termination_condition = "error"

\* The pcs inside the loop of _add_oa_cuts.
LoopPcs == {"oa_for", "oa_top", "oa_solve", "oa_after_solve", "oa_cuts"}

\* The cap the call was given: 100 for a convex problem, 3 otherwise.
CapGiven == IF Val(is_convex) THEN 100 ELSE 3

\* The evaluator fires in this step of the loop.
FiresInLoop(at) == pc = at /\ decision'[1] = "stop"

\* C16: one call of the OA loop with cap max_iter performs at most
\* max_iter relaxation solves and ends at the first of: the evaluator
\* firing before a solve, the evaluator firing after a solve, or a pass
\* that generated no new cut, and otherwise when the cap is reached; a
\* pass without new cuts ends it also below the cap, and no cut is
\* generated in a pass where the evaluator fired after the solve.
C16_LoopExits ==
    [][/\ iter' <= CapGiven
       /\ iter' # iter => pc = "oa_solve" /\ iter' = iter + 1
       /\ (pc \in LoopPcs /\ pc' = "check2") =>
            \/ pc = "oa_for" /\ oa_k = CapGiven /\ iter = CapGiven
            \/ FiresInLoop("oa_top") /\ iter' = iter
            \/ FiresInLoop("oa_after_solve")
            \/ pc = "oa_cuts" /\ new_con_list' = Some(0)
       /\ (FiresInLoop("oa_top") \/ FiresInLoop("oa_after_solve")) =>
            pc' = "check2" /\ IsNone(new_con_list')
       /\ (pc = "oa_cuts" /\ new_con_list' = Some(0)) => pc' = "check2"
       /\ (pc = "oa_for" /\ oa_k < CapGiven) => pc' = "oa_top"
       /\ ~IsNone(new_con_list') =>
            \/ pc = "oa_cuts"
            \/ new_con_list' = new_con_list]_vars

\* The loop has returned because its cap of 3 passes was reached: three
\* solves, each followed by new cuts.
C16_Witness ==
    /\ pc = "check2"
    /\ is_convex = Some(FALSE)
    /\ oa_k = 3
    /\ iter = 3
    /\ new_con_list = Some(1)
    /\ decision = <<"continue", "unknown">>

\* The phases of a main-loop pass after its relaxation solve.
LaterPhases == {"main_nlp", "main_cuts", "main_partition"}

\* C17, as the specification states it: the evaluator is consulted at every
\* transition of the controller, also inside a main-loop pass between
\* SolveRelaxation and SolveNLP, between SolveNLP and AddCuts and between
\* AddCuts and Partition, so each of these phases is entered from an
\* evaluation that said continue, and none of them is executed once the
\* iteration limit is reached or a stop flag is set.
C17_EvaluatedAtEveryTransition ==
    [][/\ (pc' \in LaterPhases /\ pc' # pc) =>
            pc \in EvaluationPcs /\ decision'[1] = "continue"
       /\ (pc \in LaterPhases /\ pc' # pc) =>
            iter < MaxIter /\ IsNone(stop)]_vars

\* The term's auxiliary value is within the tolerance of its rhs value.
WithinTolerance(t) == Abs(t.aux - t.rhs) <= 1

\* C18: a term is eligible for partition refinement only if its auxiliary
\* value exceeds the rhs value by more than feasibility_tolerance while
\* its side is OVER or BOTH and its rhs is not concave, or falls short of
\* it by more than the tolerance while its side is UNDER or BOTH and its
\* rhs is not convex: every refined term is such a term, every such term
\* is refined when the cap allows all of them, and a term within the
\* tolerance, an UNDER-only term violated from above, an OVER-only term
\* violated from below, a convex term violated from below and a concave
\* term violated from above are never refined.
C18_Eligibility ==
    Partitioned =>
        \A i \in 1..Len(terms) :
            LET t == terms[i]
                above == t.aux > t.rhs + 1
                below == t.aux < t.rhs - 1
            IN  /\ i \in RefinedSet =>
                    \/ /\ above
                       /\ t.relaxation_side \in {"OVER", "BOTH"}
                       /\ ~t.is_rhs_concave
                    \/ /\ below
                       /\ t.relaxation_side \in {"UNDER", "BOTH"}
                       /\ ~t.is_rhs_convex
                /\ (/\ Cardinality(EligibleTerms) <= max_partitions_per_iter
                     /\ \/ /\ above
                            /\ t.relaxation_side \in {"OVER", "BOTH"}
                            /\ ~t.is_rhs_concave
                         \/ /\ below
                            /\ t.relaxation_side \in {"UNDER", "BOTH"}
                            /\ ~t.is_rhs_convex) => i \in RefinedSet
                /\ WithinTolerance(t) => i \notin RefinedSet
                /\ (t.relaxation_side = "UNDER" /\ above) => i \notin RefinedSet
                /\ (t.relaxation_side = "OVER" /\ below) => i \notin RefinedSet
                /\ (t.is_rhs_convex /\ below) => i \notin RefinedSet
                /\ (t.is_rhs_concave /\ above) => i \notin RefinedSet

\* A convex term relaxed on both sides and violated from above was
\* refined, and a convex term violated from below was left alone although
\* the cap allowed one more.
C18_Witness ==
    /\ Partitioned
    /\ max_partitions_per_iter = 2
    /\ Len(terms) = 2
    /\ terms[1].is_rhs_convex /\ terms[1].relaxation_side = "BOTH"
    /\ terms[1].aux > terms[1].rhs + 1
    /\ terms[2].is_rhs_convex /\ terms[2].relaxation_side = "BOTH"
    /\ terms[2].aux < terms[2].rhs - 1
    /\ refined = Some(<<1>>)

\* C19: when the OA loop returns, by any of its exits (cap reached, no new
\* cut, evaluator fired before or after a solve), each of the backend's
\* ten update flags has the value it had when the loop was entered, and
\* from the entry of the loop to its exit the flags that are on are
\* check_for_new_or_removed_params and treat_fixed_vars_as_params only.
C19_FlagsRestored ==
    /\ pc \in LoopPcs =>
          /\ update_config \cap UpdateFlags =
                {"check_for_new_or_removed_params",
                 "treat_fixed_vars_as_params"}
          /\ ~IsNone(original_update_config)
    /\ pc \in {"check1", "check2"} =>
          \A flag \in UpdateFlags :
              flag \in update_config <=> flag \in Val(original_update_config)

\* The loop was entered with update_vars and update_named_expressions on
\* and the two loop flags off, and has returned after a pass without new
\* cuts with exactly those two on again.
C19_Witness ==
    /\ pc = "check2"
    /\ new_con_list = Some(0)
    /\ original_update_config =
          Some({"update_vars", "update_named_expressions"})
    /\ update_config = {"update_vars", "update_named_expressions"}

\* Objective a is no worse than objective b in the sense of the problem.
NoWorse(a, b) == IF sense = "minimize" THEN a <= b ELSE a >= b

\* A pass of the loop has solved the relaxation and got a feasible
\* objective.
PassReported ==
    /\ pc = "oa_solve"
    /\ pc' = "oa_after_solve"
    /\ ~IsNone(Val(rel_res').best_feasible_objective)

\* The loader of the kept result is over the discrete variables only and
\* holds the values the relaxation solution loaded last gave them.
LoaderOfDiscrete(res) ==
    /\ DOMAIN Val(res.solution_loader) = {<<"rel", "x1">>, <<"rel", "x2">>}
    /\ \A v \in DOMAIN Val(res.solution_loader) :
          Val(res.solution_loader)[v] = rel_val'[v]

\* The loop returns an empty result when no pass reported a feasible
\* objective, and what it kept otherwise.
ReturnsKept ==
    (pc \in LoopPcs /\ pc' \in {"check1", "check2"}) =>
        /\ IsNone(oa_results) =>
              IsNone(Val(oa_results').best_feasible_objective)
        /\ ~IsNone(oa_results) => oa_results' = oa_results

\* C20, as stated: the loop returns the best relaxation result observed
\* over its passes, so the result it keeps is never replaced by one with
\* a worse objective; its loader is restricted to the discrete variables;
\* with no pass reporting a feasible objective it returns an empty result
\* without best_feasible_objective.
C20_Original ==
    [][/\ (PassReported /\ ~IsNone(oa_results)) =>
            /\ NoWorse(Val(Val(oa_results').best_feasible_objective),
                       Val(Val(oa_results).best_feasible_objective))
            /\ LoaderOfDiscrete(Val(oa_results'))
       /\ ReturnsKept]_vars

\* C20, amended: the loop returns the result of the last pass that
\* reported a feasible objective (its status, objective and bound, whether
\* or not an earlier pass was better), with a loader restricted to the
\* discrete variables; with no pass reporting a feasible objective it
\* returns an empty result without best_feasible_objective.
C20_ReturnsLastFeasible ==
    [][/\ PassReported =>
            /\ Val(oa_results').termination_condition =
                    Val(rel_res').termination_condition
            /\ Val(oa_results').best_feasible_objective =
                    Val(rel_res').best_feasible_objective
            /\ Val(oa_results').best_objective_bound =
                    Val(rel_res').best_objective_bound
            /\ LoaderOfDiscrete(Val(oa_results'))
       /\ (pc \in LoopPcs /\ pc' \in LoopPcs /\ ~PassReported) =>
            oa_results' = oa_results
       /\ ReturnsKept]_vars

\* A minimisation whose loop has returned a result with objective 1000
\* after an earlier pass had reported, and the tracker recorded, 0.
C20_Witness ==
    /\ pc = "check2"
    /\ sense = "minimize"
    /\ best_feasible_objective = Some(0)
    /\ Val(oa_results).best_feasible_objective = Some(1000)
    /\ DOMAIN Val(Val(oa_results).solution_loader)
          = {<<"rel", "x1">>, <<"rel", "x2">>}

\* ------------------------------------------------------------------- C21
NlpPcs == {"root_nlp", "main_nlp"}

\* The step just taken was an NLP fixing step in which FBBT proved the
\* fixed NLP infeasible.
FbbtProvedInfeasible ==
    /\ pc \in NlpPcs
    /\ ~IsNone(nlp_step')
    /\ Val(nlp_step').proven_infeasible

\* C21: when FBBT proves the fixed NLP infeasible, the NLP fixing step
\* calls no NLP backend, raises nothing, yields a result with status
\* infeasible and no feasible objective, leaves best_feasible_objective,
\* the incumbent and the stop flag as they were, and hands control on: in
\* the main loop to cut generation, which hands it to partitioning, which
\* hands it to the evaluation before the next relaxation solve.
C21_ProvenInfeasibleGoesOn ==
    [][/\ FbbtProvedInfeasible =>
            /\ ~Val(nlp_step').solved
            /\ fault' = fault
            /\ ~IsNone(nlp_res')
            /\ Val(nlp_res').termination_condition = "infeasible"
            /\ IsNone(Val(nlp_res').best_feasible_objective)
            /\ nlp_termination' = "infeasible"
            /\ UNCHANGED <<best_feasible_objective, incumbent, stop>>
            /\ pc' = IF pc = "main_nlp" THEN "main_cuts" ELSE "root_obbt"
       /\ pc = "main_cuts" => pc' = "main_partition" /\ fault' = fault
       /\ pc = "main_partition" => pc' = "main_top" /\ fault' = fault
       /\ pc = "main_top" /\ decision' = <<"continue", "unknown">> =>
            pc' = "main_solve"]_vars

\* A main-loop NLP fixing step has ended on proven infeasibility with a
\* feasible objective tracked, and cut generation is next.
C21_Witness ==
    /\ pc = "main_cuts"
    /\ ~IsNone(nlp_step)
    /\ Val(nlp_step).proven_infeasible
    /\ ~IsNone(best_feasible_objective)
    /\ IsNone(stop)

\* ------------------------------------------------------------------- C22
\* The step just taken was an NLP fixing step in which FBBT ran and did not
\* prove infeasibility.
FbbtTightened ==
    /\ pc \in NlpPcs
    /\ ~IsNone(nlp_step')
    /\ ~Val(nlp_step').proven_infeasible

\* The bounds of NLP variable v after the FBBT outcome fb.
BoundsAfterFbbt(fb, v) ==
    IF v = NlpVar(ContName) THEN fb.y ELSE <<nlp_lb[v], nlp_ub[v]>>

\* The NLP variables still unfixed once the discrete ones are fixed at
\* their rounded values and every other unfixed variable whose bounds after
\* fb are equal is fixed too.
LeftUnfixed(fb) ==
    {v \in NlpVars :
        /\ ~nlp_fixed[v]
        /\ v \notin {NlpVar(DiscNames[i]) : i \in 1..Len(DiscNames)}
        /\ BoundsAfterFbbt(fb, v)[1] # BoundsAfterFbbt(fb, v)[2]}

\* C22: in an NLP fixing step in which FBBT does not prove infeasibility,
\* the variables fixed are exactly the fixed ones, the discrete ones and the
\* ones with equal bounds, each of the latter at its midpoint; nlp_solver is
\* called exactly when a variable is left unfixed; when none is left, the
\* step aborts with AssertionError (no result, tracked bounds untouched) if
\* a constraint active on entry was not deactivated by the tightening, and
\* otherwise its result has status optimal with one value as both
\* best_feasible_objective and best_objective_bound.
C22_BackendOnlyForUnfixed ==
    [][FbbtTightened =>
          LET s == Val(nlp_step')
              left == LeftUnfixed(s.fbbt)
              still_active == s.active_constraints \ s.fbbt.deactivated
          IN  /\ \A v \in NlpVars : s.fixed[v] <=> v \notin left
              /\ s.solved <=> left # {}
              /\ left = {} =>
                    /\ \A v \in s.fixed_vars :
                          BoundsAfterFbbt(s.fbbt, v)[1]
                              = BoundsAfterFbbt(s.fbbt, v)[2]
                          /\ v = NlpVar(ContName) =>
                             nlp_val'[v] = Some(BoundsAfterFbbt(s.fbbt, v)[1])
                    /\ IF still_active # {}
                       THEN /\ pc' = "raised"
                            /\ fault' = "AssertionError"
                            /\ UNCHANGED <<nlp_res, nlp_termination,
                                           best_feasible_objective,
                                           incumbent>>
                       ELSE /\ fault' = fault
                            /\ ~IsNone(nlp_res')
                            /\ Val(nlp_res').termination_condition
                                  = "optimal"
                            /\ ~IsNone(Val(nlp_res').best_feasible_objective)
                            /\ Val(nlp_res').best_objective_bound
                                  = Val(nlp_res').best_feasible_objective
                            /\ nlp_termination' = "optimal"]_vars

\* An NLP fixing step has skipped the backend on a fully fixed problem whose
\* constraints FBBT had all deactivated, and has returned its result.
C22_Witness ==
    /\ pc \in {"main_cuts", "root_obbt"}
    /\ ~IsNone(nlp_step)
    /\ ~Val(nlp_step).proven_infeasible
    /\ ~Val(nlp_step).solved
    /\ Val(nlp_step).active_constraints # {}
    /\ Val(nlp_step).active_constraints \subseteq Val(nlp_step).fbbt.deactivated
    /\ ~IsNone(nlp_res)
    /\ Val(nlp_res).termination_condition = "optimal"
    /\ Val(nlp_res).best_objective_bound = Val(nlp_res).best_feasible_objective

\* ------------------------------------------------------------------- C23
\* The evaluations of solve itself, each of which can return the results.
RunEndingPcs == {"check0", "check1", "check2", "main_top", "main_after_solve"}

\* Where solve is between a push_integers and its pop_integers: in the
\* first root loop, or after the OBBT passes.
BetweenPushAndPop ==
    \/ oa_phase = 1 /\ pc \in {"oa_for", "oa_top", "oa_solve",
                               "oa_after_solve", "oa_cuts"}
    \/ pc = "root_pop"

\* C23: the discrete variables of the relaxation model have their original
\* domains at every evaluation that can end the run, whenever solve has
\* returned a result, and at every main-loop relaxation solve; they are
\* continuous only between a push_integers and its pop_integers, or after
\* an exception has left solve from there.
C23_IntegersRestored ==
    /\ pc \in RunEndingPcs => rel_domain = DiscDomain0
    /\ pc = "done" => rel_domain = DiscDomain0
    /\ pc = "main_solve" => rel_domain = DiscDomain0
    /\ rel_domain # DiscDomain0 =>
          /\ BetweenPushAndPop \/ pc = "raised"
          /\ rel_domain = push_integers(DiscDomain0)

\* A main-loop relaxation solve has run, after both relaxations of the
\* discrete variables, with every discrete variable discrete again.
C23_Witness ==
    /\ pc = "main_after_solve"
    /\ ~IsNone(rel_res)
    /\ relaxed = Some(relaxed_by_push(DiscDomain0))
    /\ rel_domain = DiscDomain0
    /\ rel_domain # push_integers(DiscDomain0)

\* ------------------------------------------------------------------- C24
\* The lower bound and the larger absolute endpoint of entry (i, j), a
\* missing entry counting as [0, 0].
EntryLower(i, j) ==
    IF IsNone(hess[<<i, j>>]) THEN 0 ELSE Val(hess[<<i, j>>])[1]

EntryAbsMax(i, j) ==
    IF IsNone(hess[<<i, j>>]) THEN 0
    ELSE LET l == Val(hess[<<i, j>>])[1]
             u == Val(hess[<<i, j>>])[2]
             al == IF l < 0 THEN 0 - l ELSE l
             au == IF u < 0 THEN 0 - u ELSE u
         IN  IF al >= au THEN al ELSE au

\* The sum of EntryAbsMax(i, j) over the columns j in S.
RECURSIVE OffDiagonalSum(_, _)
OffDiagonalSum(i, S) ==
    IF S = {} THEN 0
    ELSE LET j == CHOOSE c \in S : TRUE
         IN  EntryAbsMax(i, j) + OffDiagonalSum(i, S \ {j})

\* The row total of row i.
RowTotalOf(i) ==
    EntryLower(i, i) - OffDiagonalSum(i, (1..Len(xs)) \ {i})

\* C24: what _compute_alpha returns is max(0, max over the rows i of
\* -0.5 * (lower bound of the diagonal entry - sum over j # i of
\* max(|lower|, |upper|) of entry (i, j))), a missing entry counting as
\* [0, 0]; it is never negative; it is 0 exactly when every row total is
\* >= 0; and it is 1 for two variables with diagonal [-2, -2] and zero
\* off-diagonal entries.  (alpha is in units of 1/AlphaDen = 1/2.)
C24_AlphaFormula ==
    ~IsNone(alpha) =>
       LET a == Val(alpha)
           rows == 1..Len(xs)
           candidates == {0} \cup {0 - RowTotalOf(i) : i \in rows}
       IN  /\ a \in candidates
           /\ \A c \in candidates : c <= a
           /\ a >= 0
           /\ a = 0 <=> \A i \in rows : RowTotalOf(i) >= 0
           /\ (/\ Len(xs) = 2
               /\ \A i \in rows : hess[<<i, i>>] = Some(<<-2, -2>>)
               /\ \A i, j \in rows :
                     i # j => hess[<<i, j>>] \in {None, Some(<<0, 0>>)})
              => a = AlphaDen

\* alpha = 1 was returned for the Hessian of -x_1^2 - x_2^2.
C24_Witness ==
    /\ alpha = Some(AlphaDen)
    /\ Len(xs) = 2
    /\ hess = [e \in (1..2) \X (1..2) |->
                  IF e[1] = e[2] THEN Some(<<-2, -2>>) ELSE None]

\* ------------------------------------------------------------------- C25
\* Where a relaxation solve or an NLP fixing step is about to run.
CountedPcs == {"oa_solve", "main_solve", "root_nlp", "main_nlp"}

\* C25, the bound: the iteration counter never exceeds max_iter.
\* C25, the accounting: every relaxation solve and every NLP fixing step,
\* in the root phase as in the main loop, advances the counter by exactly
\* one, whether or not it raises; nothing else changes it but the reset at
\* the start of solve; and the step before each of them is a termination
\* evaluation that continued with the counter, unchanged by it, strictly
\* below max_iter.
C25_CounterWithinMaxIter ==
    [][/\ iter <= MaxIter
       /\ iter' <= MaxIter
       /\ pc \in CountedPcs => iter' = iter + 1
       /\ pc \notin CountedPcs => iter' = iter \/ (iter' = 0 /\ pc' = "check0")
       /\ pc' \in CountedPcs =>
             /\ pc \in EvaluationPcs
             /\ decision' = <<"continue", "unknown">>
             /\ iter' = iter
             /\ iter < MaxIter]_vars

\* The NLP fixing step of a main-loop pass has taken the counter to
\* max_iter, the relaxation solve of that pass having taken it to one less.
C25_Witness ==
    /\ pc = "main_cuts"
    /\ iter = MaxIter
    /\ ~IsNone(log_line)
    /\ Val(log_line).iter = MaxIter

\* ------------------------------------------------------------------- C26
\* C26, the invariant: the incumbent is set exactly when
\* best_feasible_objective is.
\* C26, the writes: a step changes either of them only by unsetting both
\* at the start of solve, or in a relaxation solve or an NLP fixing step
\* whose update is accepted, which sets both to a new objective and an
\* incumbent over the original model's variables.
\* C26, the result: a returned result has a solution loader exactly when it
\* has a best feasible objective, and the loader is the incumbent.
C26_IncumbentWithObjective ==
    [][/\ IsNone(incumbent) <=> IsNone(best_feasible_objective)
       /\ IsNone(incumbent') <=> IsNone(best_feasible_objective')
       /\ (incumbent' # incumbent
             \/ best_feasible_objective' # best_feasible_objective) =>
             \/ /\ pc' = "check0"
                /\ IsNone(incumbent')
                /\ IsNone(best_feasible_objective')
             \/ /\ pc \in CountedPcs
                /\ best_feasible_objective' # best_feasible_objective
                /\ ~IsNone(best_feasible_objective')
                /\ ~IsNone(incumbent')
                /\ DOMAIN Val(incumbent') = OrigVars
       /\ (pc' = "done" /\ pc # "done") =>
             /\ ~IsNone(result')
             /\ Val(result').best_feasible_objective
                   = best_feasible_objective
             /\ IsNone(Val(result').solution_loader)
                   <=> IsNone(Val(result').best_feasible_objective)
             /\ ~IsNone(Val(result').solution_loader) =>
                   Val(result').solution_loader = incumbent]_vars

\* solve has returned a result with a best feasible objective that an
\* accepted update had written together with the incumbent its loader holds.
C26_Witness ==
    /\ pc = "done"
    /\ ~IsNone(incumbent)
    /\ ~IsNone(best_feasible_objective)
    /\ ~IsNone(result)
    /\ Val(result).best_feasible_objective = best_feasible_objective
    /\ Val(result).solution_loader = incumbent

\* ------------------------------------------------------------------- C27
\* C27, as claimed: solve returns no result with the status unknown, and
\* the evaluator gives the reason unknown only with the decision to
\* continue.
C27_Original ==
    /\ (pc = "done" /\ ~IsNone(result)) =>
          Val(result).termination_condition # "unknown"
    /\ (~IsNone(decision) /\ decision[2] = "unknown") =>
          decision[1] = "continue"

\* C27, amended: a relaxation solve whose backend reports the status
\* unknown records unknown as the stop reason; the evaluator gives the
\* reason unknown with the decision to continue when no stop flag is set,
\* and with the decision to stop exactly when the stop flag is unknown and
\* neither limit matches first; and solve returns a result with the status
\* unknown only from such an evaluation, after a relaxation solve whose
\* backend reported unknown.
C27_UnknownOnlyFromBackend ==
    [][/\ (RelaxationReturned /\ rel_termination' = "unknown") =>
             stop' = Some("unknown")
       /\ pc \in EvaluationPcs =>
             /\ decision'[1] = "continue" =>
                   decision'[2] = "unknown" /\ IsNone(stop)
             /\ (decision'[1] = "stop" /\ decision'[2] = "unknown") =>
                   /\ stop = Some("unknown")
                   /\ rel_termination = "unknown"
                   /\ iter < MaxIter
                   /\ ~time_up'
             /\ (stop = Some("unknown") /\ iter < MaxIter /\ ~time_up') =>
                   decision' = <<"stop", "unknown">>
       /\ (pc' = "done" /\ pc # "done"
              /\ Val(result').termination_condition = "unknown") =>
             /\ pc \in EvaluationPcs
             /\ decision' = <<"stop", "unknown">>
             /\ rel_termination = "unknown"]_vars

\* solve has returned a result with the status unknown that the MIP
\* backend had reported, the relaxation having no feasible objective.
C27_Witness ==
    /\ pc = "done"
    /\ ~IsNone(result)
    /\ Val(result).termination_condition = "unknown"
    /\ decision = <<"stop", "unknown">>
    /\ stop = Some("unknown")
    /\ rel_termination = "unknown"
    /\ load_solution = Some(FALSE)

\* ------------------------------------------------------------------- C28
\* The relaxation solve just taken loaded a solution, so its result
\* reported a feasible objective, on a model without relaxation terms.
LoadedOnEmptyRegistry ==
    /\ pc \in {"oa_solve", "main_solve"}
    /\ nterms = 0
    /\ rel_val' # rel_val
    /\ \A v \in RelVars : ~IsNone(rel_val'[v])

\* C28: on a model with no relaxation terms, a relaxation solve that
\* reports a feasible objective completes its bound update and returns
\* without a fault, and its candidate, the first of the run, is accepted
\* when every discrete variable has an integer value.
C28_EmptyRegistryNoFault ==
    [][LoadedOnEmptyRegistry =>
          /\ pc' # "raised"
          /\ fault' = fault
          /\ ~IsNone(rel_res')
          /\ (/\ IsNone(best_feasible_objective)
              /\ \A v \in _discrete_vars :
                    Val(rel_val'[v]) = Round(Val(rel_val'[v])))
                => ~IsNone(best_feasible_objective')]_vars

====
